---- MODULE Spec2Model ----
(***************************************************************************)
(* PaperFlow: the LLM provider registry (llm_service.py, routers/admin.py), *)
(* the pool builder and the failover router (llm_pool.py).                  *)
(*                                                                          *)
(* Text columns (api_key, models, the llm_max_retries setting) are          *)
(* sequences of one-character strings, so that split(","), strip() and      *)
(* int() are computed as Python computes them.                              *)
(***************************************************************************)
EXTENDS Integers, Sequences, FiniteSets, TLC

VARIABLES
    providers,  \* the llm_providers table: a set of rows (db_models.LLMProvider)
    config,     \* system_config row "llm_max_retries": None or its text value
    pools,      \* llm_manager.pools: pool name -> ordered channel list
    d,          \* the locals of one LLMManager.chat / chat_stream call
    executor,   \* admin._executor: rebuild tasks submitted and not yet run
    lastOp,     \* history: the last registry operation performed
    d2,         \* the locals of a second LLMManager.chat call, running beside d
    prev,       \* history: the locals of the call before d, as it ended
    threads,    \* admin._executor: the locals of its two worker threads
    hist,       \* history: the admin writes made and the rebuilds they submitted
    req,        \* the admin request whose handler is running, and where it is
    gem,        \* GeminiClientWrapper: the messages given and the request built
    tq          \* translation_queue_manager, its worker loops and the queue table

vars ==
    <<providers, config, pools, d, executor, lastOp, d2, prev, threads, hist,
      req, gem, tq>>

None == "None"

\* ------------------------------------------------------------------ bounds
MaxRecords == 3     \* rows of the registry a pool is built from
MaxChunks == 2      \* chunks one stream delivers before it ends or breaks
MaxPending == 1     \* rebuild tasks waiting in the executor
MaxRows == 2        \* rows of the table the registry writes are run on
MaxWrites == 2      \* admin requests handled in one run of the routes in steps
MaxMessages == 3    \* messages of one call of the Gemini adapter
MaxTasks == 2       \* rows of the translation_queue table
MaxRetryMax == 1    \* highest value of TRANSLATION_RETRY_MAX

\* ------------------------------------------------------------------ text
Whitespace == {" "}

RECURSIVE split(_)
\* str.split(","): the pieces between commas, blank pieces included
split(s) ==
    IF \A i \in 1..Len(s) : s[i] # ","
    THEN <<s>>
    ELSE LET i == CHOOSE k \in 1..Len(s) :
                       s[k] = "," /\ \A j \in 1..(k - 1) : s[j] # ","
         IN <<SubSeq(s, 1, i - 1)>> \o split(SubSeq(s, i + 1, Len(s)))

RECURSIVE strip(_)
\* str.strip(): leading and trailing whitespace removed
strip(s) ==
    IF s = <<>> THEN s
    ELSE IF s[1] \in Whitespace THEN strip(Tail(s))
    ELSE IF s[Len(s)] \in Whitespace THEN strip(SubSeq(s, 1, Len(s) - 1))
    ELSE s

\* mutant: the pieces are stripped but the blank ones are kept
split_list_keeps_blanks(text) ==
    LET parts == split(text)
    IN [i \in 1..Len(parts) |-> strip(parts[i])]

\* [x.strip() for x in text.split(",") if x.strip()]
split_list(text) ==
    LET parts == split(text)
        kept == SelectSeq(parts, LAMBDA p : strip(p) # <<>>)
    IN [i \in 1..Len(kept) |-> strip(kept[i])]

Digits == <<"0", "1", "2", "3", "4", "5", "6", "7", "8", "9">>
IsDigit(c) == \E i \in 1..10 : Digits[i] = c
DigitVal(c) == (CHOOSE i \in 1..10 : Digits[i] = c) - 1

RECURSIVE digits_value(_)
digits_value(s) ==
    IF s = <<>> THEN 0
    ELSE 10 * digits_value(SubSeq(s, 1, Len(s) - 1)) + DigitVal(s[Len(s)])

\* int(val) on a str: surrounding whitespace dropped, an optional sign, then
\* one or more decimal digits; anything else is a ValueError
int_parse(val) ==
    LET t == strip(val)
        signed == t # <<>> /\ t[1] \in {"+", "-"}
        body == IF signed THEN Tail(t) ELSE t
        ok == body # <<>> /\ \A i \in 1..Len(body) : IsDigit(body[i])
    IN [ok |-> ok,
        value |-> IF ~ok THEN 0
                  ELSE IF signed /\ t[1] = "-" THEN 0 - digits_value(body)
                  ELSE digits_value(body)]

\* ------------------------------------------------------------------ registry
PoolTypes == {"metadata", "analysis"}
ApiTypes == {"openai", "gemini", "anthropic"}

\* a row of llm_providers: the columns the pools are built from
Row(id, pool_type, api_type, is_primary, priority, enabled, api_key, models) ==
    [id |-> id, pool_type |-> pool_type, api_type |-> api_type,
     is_primary |-> is_primary, priority |-> priority, enabled |-> enabled,
     api_key |-> api_key, models |-> models]

OneKey == <<"a">>
TwoKeys == <<"a", ",", "b">>
OneModel == <<"m">>
TwoModels == <<"m", ",", "n">>

\* get_enabled_providers: the enabled rows of one pool type
enabled_rows(pool_type) ==
    {p \in providers : p.pool_type = pool_type /\ p.enabled}

\* get_enabled_providers: ORDER BY priority ASC.  The order of rows of equal
\* priority is not fixed by the query: every order consistent with priority
\* is a possible result.
get_enabled_providers(pool_type) ==
    LET rows == enabled_rows(pool_type)
        n == Cardinality(rows)
    IN {s \in [1..n -> rows] :
            /\ \A i, j \in 1..n : i # j => s[i] # s[j]
            /\ \A i, j \in 1..n : i < j => s[i].priority <= s[j].priority}

\* ------------------------------------------------------------------ pool builder
\* the channel appended for one (entry, key, model) of _build_pool; rid and
\* key_index are bookkeeping of the model (the row and the credential position
\* the channel came from), the other fields are the dict's
channel(entry, key_index, key, model_index, model) ==
    [rid |-> entry.id, key_index |-> key_index, client |-> key, model |-> model,
     api_type |-> entry.api_type, is_primary |-> entry.is_primary,
     priority |-> entry.priority, model_index |-> model_index]

\* for key in keys: for model_index, model in enumerate(models): append
entry_channels(entry) ==
    LET keys == split_list(entry.api_key)
        models == split_list(entry.models)
        nm == Len(models)
    IN [n \in 1..(Len(keys) * nm) |->
            LET k == ((n - 1) \div nm) + 1
                m == ((n - 1) % nm) + 1
            IN channel(entry, k, keys[k], m - 1, models[m])]

RECURSIVE expand(_)
\* for entry in providers: ... the list before it is sorted
expand(entries) ==
    IF entries = <<>> THEN <<>>
    ELSE entry_channels(Head(entries)) \o expand(Tail(entries))

Bool01(b) == IF b THEN 1 ELSE 0

\* mutant: the primary flag left out of the key
sort_key_without_primary(x) == <<0, x.priority, x.model_index>>

\* mutant: the model index left out of the key
sort_key_without_model_index(x) == <<Bool01(~x.is_primary), x.priority, 0>>

\* mutant: the priority left out of the key
sort_key_without_priority(x) == <<Bool01(~x.is_primary), 0, x.model_index>>

\* the sort key: (not is_primary, priority, model_index)
sort_key(x) == <<Bool01(~x.is_primary), x.priority, x.model_index>>

\* tuple comparison k1 < k2, as Python compares tuples
key_less(k1, k2) ==
    \/ k1[1] < k2[1]
    \/ k1[1] = k2[1] /\ k1[2] < k2[2]
    \/ k1[1] = k2[1] /\ k1[2] = k2[2] /\ k1[3] < k2[3]

\* x goes after every element whose key is not greater than its own
insert_stable(sorted, x) ==
    LET after == {i \in 1..Len(sorted) : ~key_less(sort_key(x), sort_key(sorted[i]))}
        pos == IF after = {} THEN 0 ELSE CHOOSE i \in after : \A j \in after : j <= i
    IN SubSeq(sorted, 1, pos) \o <<x>> \o SubSeq(sorted, pos + 1, Len(sorted))

RECURSIVE list_sort(_)
\* list.sort(key=...): a stable sort, elements of equal key keep their order
list_sort(s) ==
    IF s = <<>> THEN <<>>
    ELSE insert_stable(list_sort(SubSeq(s, 1, Len(s) - 1)), s[Len(s)])

\* _build_pool on the rows get_enabled_providers returned
build_pool(entries) == list_sort(expand(entries))

PoolsEmpty == [t \in PoolTypes |-> <<>>]

\* reload_config: both pools rebuilt from the table and the dict replaced
reload_config ==
    /\ \E em \in get_enabled_providers("metadata"),
          ea \in get_enabled_providers("analysis") :
            pools' = [t \in PoolTypes |->
                        IF t = "metadata" THEN build_pool(em) ELSE build_pool(ea)]
    /\ lastOp' = [op |-> "reload_config", id |-> 0, cleared |-> {}]
    /\ UNCHANGED <<providers, config, d, executor, d2, prev, threads, hist, req, gem, tq>>

\* ------------------------------------------------------------------ registry writes
\* mutant: only enabled rows lose the flag
clear_primary_enabled_only(rows, pool_type) ==
    {IF p.pool_type = pool_type /\ p.is_primary /\ p.enabled
     THEN [p EXCEPT !.is_primary = FALSE] ELSE p : p \in rows}

\* query.filter(pool_type == ..., is_primary == True).update({"is_primary": False})
clear_primary(rows, pool_type) ==
    {IF p.pool_type = pool_type /\ p.is_primary
     THEN [p EXCEPT !.is_primary = FALSE] ELSE p : p \in rows}

\* the rows after set_primary(provider_id): the table unchanged when no row has
\* the id, else the pool type's flags cleared and the row's flag set
set_primary_rows(rows, provider_id) ==
    IF \A p \in rows : p.id # provider_id
    THEN rows
    ELSE LET provider == CHOOSE p \in rows : p.id = provider_id
         IN {IF p.id = provider_id THEN [p EXCEPT !.is_primary = TRUE] ELSE p :
                p \in clear_primary(rows, provider.pool_type)}

Op(op, id) ==
    [op |-> op, id |-> id,
     cleared |-> {p.id : p \in {q \in providers :
                    q.id # id /\ q.is_primary /\ q \notin set_primary_rows(providers, id)}}]

\* llm_service.set_primary(provider_id)
set_primary ==
    /\ \E provider_id \in 1..(MaxRecords + 1) :
          /\ providers' = set_primary_rows(providers, provider_id)
          /\ lastOp' = Op("set_primary", provider_id)
    /\ UNCHANGED <<config, pools, d, executor, d2, prev, threads, hist, req, gem, tq>>

\* trigger_reload_async: _executor.submit(_reload_config_background)
trigger_reload_async == executor' = executor + 1

\* POST /llm-providers/{provider_id}/set-primary: 404 for an unknown id, else
\* the same write, the commit and a rebuild handed to the executor
admin_set_primary ==
    /\ executor < MaxPending
    /\ \E provider_id \in 1..(MaxRecords + 1) :
          /\ providers' = set_primary_rows(providers, provider_id)
          /\ lastOp' = Op("admin_set_primary", provider_id)
          /\ IF \E p \in providers : p.id = provider_id
             THEN trigger_reload_async
             ELSE UNCHANGED executor
    /\ UNCHANGED <<config, pools, d, d2, prev, threads, hist, req, gem, tq>>

\* _reload_config_background: a submitted rebuild runs
reload_config_background ==
    /\ executor > 0
    /\ executor' = executor - 1
    /\ \E em \in get_enabled_providers("metadata"),
          ea \in get_enabled_providers("analysis") :
            pools' = [t \in PoolTypes |->
                        IF t = "metadata" THEN build_pool(em) ELSE build_pool(ea)]
    /\ lastOp' = [op |-> "reload_config", id |-> 0, cleared |-> {}]
    /\ UNCHANGED <<providers, config, d, d2, prev, threads, hist, req, gem, tq>>

\* ------------------------------------------------------------------ registry writes: the other operations
\* db_models.LLMProvider: priority = Column(Integer, default=100)
DefaultPriority == 100

\* the integer primary key of a new row: one above the largest key in use
next_id(rows) ==
    IF rows = {} THEN 1
    ELSE (CHOOSE i \in {p.id : p \in rows} : \A p \in rows : p.id <= i) + 1

\* the row add_provider and create_llm_provider insert: enabled, with the
\* given pool type, flag and priority
new_row(rows, pool_type, is_primary, priority) ==
    Row(next_id(rows), pool_type, "openai", is_primary, priority, TRUE, OneKey, OneModel)

\* add_provider / create_llm_provider on the table: with is_primary the flags
\* of the pool type are cleared first, then the row is inserted
add_provider_rows(rows, pool_type, is_primary, priority) ==
    LET kept == IF is_primary THEN clear_primary(rows, pool_type) ELSE rows
    IN kept \cup {new_row(rows, pool_type, is_primary, priority)}

\* the last registry operation: its name, the id it was given and the rows
\* other than that one that lost the primary flag in it
WriteOp(op, id, after) ==
    [op |-> op, id |-> id,
     cleared |-> {p.id : p \in {q \in providers :
                    q.id # id /\ q.is_primary /\ q \notin after}}]

\* llm_service.add_provider(..., pool_type, ..., is_primary): the priority
\* column takes its default
add_provider ==
    /\ next_id(providers) <= MaxRows
    /\ \E pool_type \in PoolTypes, is_primary \in BOOLEAN :
          LET after == add_provider_rows(providers, pool_type, is_primary, DefaultPriority)
          IN /\ providers' = after
             /\ lastOp' = WriteOp("add_provider", next_id(providers), after)
    /\ UNCHANGED <<config, pools, d, executor, d2, prev, threads, hist, req, gem, tq>>

\* schemas.CreateLLMProviderRequest: priority: int = 1
RequestPriority == 1

\* POST /llm-providers: the same write with the request's fields (its priority
\* left at the request's default), the commit and a rebuild handed to the
\* executor
create_llm_provider ==
    /\ next_id(providers) <= MaxRows
    /\ executor < MaxPending
    /\ \E pool_type \in PoolTypes, is_primary \in BOOLEAN :
          LET after == add_provider_rows(providers, pool_type, is_primary, RequestPriority)
          IN /\ providers' = after
             /\ lastOp' = WriteOp("create_llm_provider", next_id(providers), after)
    /\ trigger_reload_async
    /\ UNCHANGED <<config, pools, d, d2, prev, threads, hist, req, gem, tq>>

\* the columns an update may name that the flag's uniqueness depends on
UpdateFields == {"pool_type", "is_primary"}

\* the keyword arguments of update_provider: names holds the columns named,
\* the other fields their values (a column not named has no value: the record
\* then carries a fixed one that is never read)
Kwargs ==
    {k \in [names : SUBSET UpdateFields, pool_type : PoolTypes, is_primary : BOOLEAN] :
        /\ "pool_type" \notin k.names => k.pool_type = "metadata"
        /\ "is_primary" \notin k.names => ~k.is_primary}

\* for key, value in kwargs.items(): setattr(provider, key, value)
setattrs(p, kwargs) ==
    [p EXCEPT !.pool_type = IF "pool_type" \in kwargs.names THEN kwargs.pool_type ELSE @,
              !.is_primary = IF "is_primary" \in kwargs.names THEN kwargs.is_primary ELSE @]

\* llm_service.update_provider on the table: False for an unknown id; with a
\* true is_primary among the arguments the flag is cleared on the other rows of
\* the pool type the row has before the update; then every argument is set
update_provider_rows(rows, provider_id, kwargs) ==
    IF \A p \in rows : p.id # provider_id
    THEN rows
    ELSE LET provider == CHOOSE p \in rows : p.id = provider_id
             primary == "is_primary" \in kwargs.names /\ kwargs.is_primary
             kept == IF primary
                     THEN {IF p.pool_type = provider.pool_type /\ p.is_primary
                              /\ p.id # provider_id
                           THEN [p EXCEPT !.is_primary = FALSE] ELSE p : p \in rows}
                     ELSE rows
         IN {IF p.id = provider_id THEN setattrs(p, kwargs) ELSE p : p \in kept}

update_provider ==
    /\ \E provider_id \in 1..(MaxRows + 1), kwargs \in Kwargs :
          LET after == update_provider_rows(providers, provider_id, kwargs)
          IN /\ providers' = after
             /\ lastOp' = WriteOp("update_provider", provider_id, after)
    /\ UNCHANGED <<config, pools, d, executor, d2, prev, threads, hist, req, gem, tq>>

\* the fields of UpdateLLMProviderRequest among the columns above: pool_type is
\* one, is_primary is not; a field left out or null is not set
UpdateRequests == {k \in Kwargs : k.names \subseteq {"pool_type"}}

\* PUT /llm-providers/{provider_id} on the table: every field of the request
\* that is set and not null is assigned to the row
update_llm_provider_rows(rows, provider_id, request) ==
    {IF p.id = provider_id THEN setattrs(p, request) ELSE p : p \in rows}

\* PUT /llm-providers/{provider_id}: 404 for an unknown id, else the
\* assignments, the commit and a rebuild handed to the executor
update_llm_provider ==
    /\ executor < MaxPending
    /\ \E provider_id \in 1..(MaxRows + 1), request \in UpdateRequests :
          LET after == update_llm_provider_rows(providers, provider_id, request)
          IN /\ providers' = after
             /\ lastOp' = WriteOp("update_llm_provider", provider_id, after)
             /\ IF \E p \in providers : p.id = provider_id
                THEN trigger_reload_async
                ELSE UNCHANGED executor
    /\ UNCHANGED <<config, pools, d, d2, prev, threads, hist, req, gem, tq>>

\* session.delete(provider) for the row of that id, if there is one
delete_provider_rows(rows, provider_id) == {p \in rows : p.id # provider_id}

\* llm_service.delete_provider(provider_id)
delete_provider ==
    /\ \E provider_id \in 1..(MaxRows + 1) :
          LET after == delete_provider_rows(providers, provider_id)
          IN /\ providers' = after
             /\ lastOp' = WriteOp("delete_provider", provider_id, after)
    /\ UNCHANGED <<config, pools, d, executor, d2, prev, threads, hist, req, gem, tq>>

\* provider.enabled = not provider.enabled for the row of that id
toggle_enabled_rows(rows, provider_id) ==
    {IF p.id = provider_id THEN [p EXCEPT !.enabled = ~p.enabled] ELSE p : p \in rows}

\* llm_service.toggle_enabled(provider_id)
toggle_enabled ==
    /\ \E provider_id \in 1..(MaxRows + 1) :
          LET after == toggle_enabled_rows(providers, provider_id)
          IN /\ providers' = after
             /\ lastOp' = WriteOp("toggle_enabled", provider_id, after)
    /\ UNCHANGED <<config, pools, d, executor, d2, prev, threads, hist, req, gem, tq>>

RECURSIVE add_entries(_, _, _, _)
\* for i, entry in enumerate(entries): add_provider(..., is_primary=(i == 0));
\* i is the index of the next entry, n the number of entries
add_entries(rows, pool_type, i, n) ==
    IF i >= n THEN rows
    ELSE add_entries(add_provider_rows(rows, pool_type, i = 0, DefaultPriority),
                     pool_type, i + 1, n)

\* import_from_json on the table: nothing when the table has a row, else the
\* entries of metadata_pool are added, then those of analysis_pool
import_from_json_rows(rows, n_metadata, n_analysis) ==
    IF rows # {} THEN rows
    ELSE add_entries(add_entries(rows, "metadata", 0, n_metadata),
                     "analysis", 0, n_analysis)

\* import_from_json(): the file holds n_metadata and n_analysis entries (none
\* when it is missing or unreadable)
import_from_json ==
    /\ \E n_metadata \in 0..MaxRows, n_analysis \in 0..MaxRows :
          /\ n_metadata + n_analysis <= MaxRows
          /\ LET after == import_from_json_rows(providers, n_metadata, n_analysis)
             IN /\ providers' = after
                /\ lastOp' = WriteOp("import_from_json", 0, after)
    /\ UNCHANGED <<config, pools, d, executor, d2, prev, threads, hist, req, gem, tq>>

\* ------------------------------------------------------------------ rebuilds in steps
\* admin.py line 26: ThreadPoolExecutor(max_workers=2)
max_workers == 2

\* the threads that run reload_config: the executor's workers and, numbered
\* after them, the server's event loop, where upload_stream calls it directly
Workers == 1..max_workers
Caller == max_workers + 1
Runners == Workers \cup {Caller}

\* a thread that is not in reload_config; task is the id of the deleted row
\* whose rebuild the thread runs (0 for any other rebuild), metadata and
\* analysis are the lists it has built so far
IdleThread == [pc |-> "idle", task |-> 0, metadata |-> <<>>, analysis |-> <<>>]

\* no row was deleted through the admin route yet: queued holds, for a deleted
\* row whose rebuild waits in the executor, its id and the number of tasks
\* ahead of that rebuild; done the ids of the deleted rows whose rebuild ended
NoHistory == [queued |-> {}, done |-> {}]

\* the ids a request may name: those of the rows and one that no row has
RequestIds(rows) == {p.id : p \in rows} \cup {next_id(rows)}

\* the admin route of toggle: 404 for an unknown id, else the flip, the commit
\* and a rebuild handed to the executor
admin_toggle_enabled ==
    /\ executor < MaxPending
    /\ \E provider_id \in RequestIds(providers) :
          LET after == toggle_enabled_rows(providers, provider_id)
          IN /\ providers' = after
             /\ lastOp' = WriteOp("admin_toggle_enabled", provider_id, after)
             /\ IF \E p \in providers : p.id = provider_id
                THEN trigger_reload_async
                ELSE UNCHANGED executor
    /\ UNCHANGED <<config, pools, d, d2, prev, threads, hist, req, gem, tq>>

\* DELETE /llm-providers/{provider_id}: 404 for an unknown id, else the row is
\* deleted, the commit made and a rebuild handed to the executor, behind the
\* rebuilds that wait there
delete_llm_provider ==
    /\ executor < MaxPending
    /\ \E provider_id \in RequestIds(providers) :
          LET after == delete_provider_rows(providers, provider_id)
          IN /\ providers' = after
             /\ lastOp' = WriteOp("delete_llm_provider", provider_id, after)
             /\ IF \E p \in providers : p.id = provider_id
                THEN /\ trigger_reload_async
                     /\ hist' = [hist EXCEPT !.queued =
                                    @ \cup {[id |-> provider_id, behind |-> executor]}]
                ELSE UNCHANGED <<executor, hist>>
    /\ UNCHANGED <<config, pools, d, d2, prev, threads, req, gem, tq>>

\* the deleted row, if any, whose rebuild is first in the executor's queue
first_task(h) ==
    IF \E q \in h.queued : q.behind = 0
    THEN (CHOOSE q \in h.queued : q.behind = 0).id
    ELSE 0

\* a worker thread takes the first task of the executor's queue and enters
\* _reload_config_background
reload_take ==
    /\ executor > 0
    /\ \E w \in Workers :
          /\ threads[w].pc = "idle"
          /\ threads' = [threads EXCEPT ![w] =
                            [IdleThread EXCEPT !.pc = "metadata", !.task = first_task(hist)]]
    /\ executor' = executor - 1
    /\ hist' = [hist EXCEPT !.queued =
                   {[q EXCEPT !.behind = @ - 1] : q \in {r \in @ : r.behind > 0}}]
    /\ UNCHANGED <<providers, config, pools, d, lastOp, d2, prev, req, gem, tq>>

\* upload_stream: llm_manager.reload_config() is called on the event loop
reload_call ==
    /\ threads[Caller].pc = "idle"
    /\ threads' = [threads EXCEPT ![Caller] = [IdleThread EXCEPT !.pc = "metadata"]]
    /\ UNCHANGED <<providers, config, pools, d, executor, lastOp, d2, prev, hist, req, gem, tq>>

\* mutant: the list under construction is one list for all the runs under way
reload_build_metadata_shared ==
    /\ \E w \in Runners, entries \in get_enabled_providers("metadata") :
          /\ threads[w].pc = "metadata"
          /\ \E other \in Runners \ {w} :
                threads' = [threads EXCEPT ![w].metadata =
                                              threads[other].metadata \o build_pool(entries),
                                           ![w].pc = "analysis"]
    /\ UNCHANGED <<providers, config, pools, d, executor, lastOp, d2, prev, hist, req, gem, tq>>

\* reload_config line 198: self._build_pool("metadata") returns its list
reload_build_metadata ==
    /\ \E w \in Runners, entries \in get_enabled_providers("metadata") :
          /\ threads[w].pc = "metadata"
          /\ threads' = [threads EXCEPT ![w].metadata = build_pool(entries),
                                        ![w].pc = "analysis"]
    /\ UNCHANGED <<providers, config, pools, d, executor, lastOp, d2, prev, hist, req, gem, tq>>

\* reload_config line 199: self._build_pool("analysis") returns its list
reload_build_analysis ==
    /\ \E w \in Runners, entries \in get_enabled_providers("analysis") :
          /\ threads[w].pc = "analysis"
          /\ threads' = [threads EXCEPT ![w].analysis = build_pool(entries),
                                        ![w].pc = "assign"]
    /\ UNCHANGED <<providers, config, pools, d, executor, lastOp, d2, prev, hist, req, gem, tq>>

\* mutant: the lists are added to the lists in place
new_pools_extended(thread) ==
    [t \in PoolTypes |-> pools[t] \o (IF t = "metadata" THEN thread.metadata
                                      ELSE thread.analysis)]

\* the dict of reload_config lines 197-200, made of the two lists built
new_pools(thread) ==
    [t \in PoolTypes |-> IF t = "metadata" THEN thread.metadata ELSE thread.analysis]

\* reload_config line 197: self.pools = {...}; the call returns
reload_assign ==
    /\ \E w \in Runners :
          /\ threads[w].pc = "assign"
          /\ pools' = new_pools(threads[w])
          /\ threads' = [threads EXCEPT ![w] = IdleThread]
          /\ hist' = [hist EXCEPT !.done =
                         IF threads[w].task = 0 THEN @ ELSE @ \cup {threads[w].task}]
    /\ UNCHANGED <<providers, config, d, executor, lastOp, d2, prev, req, gem, tq>>

\* the event loop is free: the direct call of reload_config has no await in
\* it, so no other coroutine or request handler runs until it has returned
LoopFree == threads[Caller].pc = "idle"

\* ------------------------------------------------------------------ admin routes in steps
\* no handler is running; writes counts the requests handled so far
NoRequest == [pc |-> "none", op |-> "none", id |-> 0, write |-> 0,
              committed |-> FALSE, submitted |-> 0, status |-> 0]

\* what the five routes do once the row is found, in program order:
\* db.commit(), trigger_reload_async(), return
route_steps == <<"commit", "submit", "respond">>

\* the requests the routes accept on a table and the table each one commits:
\* POST /llm-providers (of an analysis row, primary or not), and PUT, DELETE,
\* set-primary and toggle of a row
AdminRequests(rows) ==
    {[op |-> "create_llm_provider", id |-> next_id(rows),
      after |-> add_provider_rows(rows, t, prim, RequestPriority)] :
        t \in IF next_id(rows) <= MaxRows THEN {"analysis"} ELSE {}, prim \in BOOLEAN}
    \cup {[op |-> "update_llm_provider", id |-> p.id,
           after |-> update_llm_provider_rows(rows, p.id, r)] :
             p \in rows, r \in UpdateRequests}
    \cup {[op |-> "delete_llm_provider", id |-> p.id,
           after |-> delete_provider_rows(rows, p.id)] : p \in rows}
    \cup {[op |-> "set_primary", id |-> p.id,
           after |-> set_primary_rows(rows, p.id)] : p \in rows}
    \cup {[op |-> "toggle_enabled", id |-> p.id,
           after |-> toggle_enabled_rows(rows, p.id)] : p \in rows}

\* the routes that look a row up first
RowRoutes == {"update_llm_provider", "delete_llm_provider", "set_primary", "toggle_enabled"}

\* a request for a row arrives and no row has that id: HTTPException 404
route_not_found ==
    /\ req.pc = "none"
    /\ req.write < MaxWrites
    /\ \E op \in RowRoutes :
          req' = [NoRequest EXCEPT !.op = op, !.id = next_id(providers),
                                   !.write = req.write + 1, !.pc = "respond",
                                   !.status = 404]
    /\ UNCHANGED <<providers, config, pools, d, executor, lastOp, d2, prev, threads, hist,
                   gem, tq>>

\* a request arrives and the handler runs up to its commit: the row is found
\* (or made) and the session holds the change
route_begin ==
    /\ req.pc = "none"
    /\ req.write < MaxWrites
    /\ \E r \in AdminRequests(providers) :
          req' = [NoRequest EXCEPT !.op = r.op, !.id = r.id,
                                   !.write = req.write + 1, !.pc = route_steps[1],
                                   !.status = 200]
    /\ UNCHANGED <<providers, config, pools, d, executor, lastOp, d2, prev, threads, hist,
                   gem, tq>>

\* the handler's position after one of its steps
route_after(r) ==
    LET i == CHOOSE k \in 1..Len(route_steps) : route_steps[k] = r.pc
    IN IF i < Len(route_steps) THEN route_steps[i + 1] ELSE "none"

\* db.commit(): the table is what the request makes it
route_commit ==
    /\ req.pc = "commit"
    /\ \E r \in AdminRequests(providers) :
          /\ r.op = req.op /\ r.id = req.id
          /\ providers' = r.after
    /\ req' = [req EXCEPT !.pc = route_after(req), !.committed = TRUE]
    /\ UNCHANGED <<config, pools, d, executor, lastOp, d2, prev, threads, hist, gem, tq>>

\* trigger_reload_async(): the rebuild is put in the executor's queue, behind
\* the ones that wait there
route_submit ==
    /\ req.pc = "submit"
    /\ trigger_reload_async
    /\ hist' = [hist EXCEPT !.queued = @ \cup {[id |-> req.write, behind |-> executor]}]
    /\ req' = [req EXCEPT !.pc = route_after(req), !.submitted = @ + 1]
    /\ UNCHANGED <<providers, config, pools, d, lastOp, d2, prev, threads, gem, tq>>

\* mutant: the response is held back until the rebuild has run
route_respond_waits ==
    /\ req.pc = "respond"
    /\ req.status = 200 => req.write \in hist.done
    /\ req' = [NoRequest EXCEPT !.write = req.write]
    /\ UNCHANGED <<providers, config, pools, d, executor, lastOp, d2, prev, threads, hist,
                   gem, tq>>

\* return: the response goes out
route_respond ==
    /\ req.pc = "respond"
    /\ req' = [NoRequest EXCEPT !.write = req.write]
    /\ UNCHANGED <<providers, config, pools, d, executor, lastOp, d2, prev, threads, hist,
                   gem, tq>>

\* ------------------------------------------------------------------ dispatch
\* what an adapter call can raise
TransportErrors == {"connect", "timeout"}
\* what a response's message content can be: text the caller's validator
\* accepts, text it rejects, and no text (the validator then raises)
Contents == {"good", "bad", "none"}
\* pool names a caller may pass: the two pools and a name pools has no entry for
PoolNames == PoolTypes \cup {"other"}

NoError == [kind |-> None, node |-> 0, attempt |-> 0]
NoResult == [content |-> None, node |-> 0, attempt |-> 0]

\* the locals of a call before it starts; calls, log, config_reads, n_ok,
\* method and chunks are history: the adapter calls made, the llm_logger
\* events, the reads of the llm_max_retries setting, the attempts that went
\* through without error, the client method of the last adapter call and what
\* was passed to on_chunk
Idle ==
    [pc |-> "idle", mode |-> None, pool_name |-> None, validator |-> FALSE,
     on_chunk |-> FALSE, target_pool |-> <<>>, max_retries |-> 0,
     node |-> 0, attempt |-> 0, last_error |-> NoError, full_content |-> <<>>,
     result |-> NoResult, raised |-> NoError,
     calls |-> <<>>, log |-> <<>>, config_reads |-> 0, n_ok |-> 0,
     method |-> None, chunks |-> <<>>]

\* db_service.get_config(key, default)
get_config(default) == IF config = None THEN default ELSE config

\* mutant: the bound of the call before is kept
get_max_retries_cached ==
    IF prev.config_reads > 0 THEN prev.max_retries
    ELSE LET parsed == int_parse(get_config(<<"3">>))
         IN IF parsed.ok THEN parsed.value ELSE 3

\* _get_max_retries: int(get_config("llm_max_retries", "3")), 3 on ValueError
get_max_retries ==
    LET parsed == int_parse(get_config(<<"3">>))
    IN IF parsed.ok THEN parsed.value ELSE 3

\* self.pools.get(pool_name, [])
pools_get(pool_name) ==
    IF pool_name \in DOMAIN pools THEN pools[pool_name] ELSE <<>>

\* mutant: the retry setting is read before the pool is looked at
begin_reads_setting_first(mode, pool_name, validator, on_chunk) ==
    LET target_pool == pools_get(pool_name)
        dd == [Idle EXCEPT !.mode = mode, !.pool_name = pool_name,
                           !.validator = validator, !.on_chunk = on_chunk,
                           !.target_pool = target_pool,
                           !.max_retries = get_max_retries, !.config_reads = @ + 1]
    IN IF target_pool = <<>>
       THEN [dd EXCEPT !.pc = "raised",
                       !.raised = [kind |-> "pool_empty", node |-> 0, attempt |-> 0]]
       ELSE [dd EXCEPT !.pc = "loop", !.node = 1, !.attempt = 0]

\* mutant: a call after one that raised starts behind the channel that failed
begin_resumes(mode, pool_name, validator, on_chunk) ==
    LET target_pool == pools_get(pool_name)
        dd == [Idle EXCEPT !.mode = mode, !.pool_name = pool_name,
                           !.validator = validator, !.on_chunk = on_chunk,
                           !.target_pool = target_pool]
    IN IF target_pool = <<>>
       THEN [dd EXCEPT !.pc = "raised",
                       !.raised = [kind |-> "pool_empty", node |-> 0, attempt |-> 0]]
       ELSE [dd EXCEPT !.pc = "loop", !.max_retries = get_max_retries,
                       !.config_reads = @ + 1,
                       !.node = IF prev.pc = "raised" THEN 2 ELSE 1, !.attempt = 0]

\* the first lines of chat and chat_stream: read the pool, raise when it is
\* empty, else read the retry setting and enter the loops
begin(mode, pool_name, validator, on_chunk) ==
    LET target_pool == pools_get(pool_name)
        dd == [Idle EXCEPT !.mode = mode, !.pool_name = pool_name,
                           !.validator = validator, !.on_chunk = on_chunk,
                           !.target_pool = target_pool]
    IN IF target_pool = <<>>
       THEN [dd EXCEPT !.pc = "raised",
                       !.raised = [kind |-> "pool_empty", node |-> 0, attempt |-> 0]]
       ELSE [dd EXCEPT !.pc = "loop", !.max_retries = get_max_retries,
                       !.config_reads = @ + 1, !.node = 1, !.attempt = 0]

Event(ev, dd) == [ev |-> ev, node |-> dd.node, attempt |-> dd.attempt]

\* the top of the try block: log_request on the first attempt, else log_retry
log_attempt(dd) ==
    [dd EXCEPT !.log = Append(@, Event(IF dd.attempt = 0 THEN "request" ELSE "retry", dd))]

Node(dd) == dd.target_pool[dd.node]

\* mutant: chat_stream streams from every channel
adapter_method_always_streams(dd) ==
    IF dd.mode = "chat_stream" THEN "chat.completions.create(stream=True)"
    ELSE IF Node(dd).api_type # "openai" THEN "create_chat_completion"
    ELSE "chat.completions.create"

\* the client method an attempt calls: the wrapper's create_chat_completion
\* on a channel that is not openai, else chat.completions.create, with
\* stream=True in chat_stream
adapter_method(dd) ==
    IF Node(dd).api_type # "openai" THEN "create_chat_completion"
    ELSE IF dd.mode = "chat_stream" THEN "chat.completions.create(stream=True)"
    ELSE "chat.completions.create"

\* mutant: the call goes out twice at once
call_adapter_hedged(dd) ==
    [dd EXCEPT !.calls = @ \o <<[node |-> dd.node, attempt |-> dd.attempt],
                                [node |-> dd.node, attempt |-> dd.attempt]>>,
               !.method = adapter_method(dd)]

\* an adapter call is made: create_chat_completion / chat.completions.create
call_adapter(dd) ==
    [dd EXCEPT !.calls = Append(@, [node |-> dd.node, attempt |-> dd.attempt]),
               !.method = adapter_method(dd)]

\* mutant: a failed attempt abandons the channel
on_exception_failover(dd, kind) ==
    [dd EXCEPT !.pc = "loop",
               !.log = Append(@, Event("failure", dd)),
               !.last_error = [kind |-> kind, node |-> dd.node, attempt |-> dd.attempt],
               !.node = @ + 1, !.attempt = 0]

\* mutant: an HTTP error status is raised to the caller
on_exception_raises_status(dd, kind) ==
    IF kind = "http_status"
    THEN [dd EXCEPT !.pc = "raised",
                    !.raised = [kind |-> kind, node |-> dd.node, attempt |-> dd.attempt]]
    ELSE [dd EXCEPT !.pc = "loop",
                    !.log = Append(@, Event("failure", dd)),
                    !.last_error = [kind |-> kind, node |-> dd.node, attempt |-> dd.attempt],
                    !.attempt = @ + 1]

\* mutant: the attempt counter is one counter for all the calls in flight
on_exception_shared(dd, kind) ==
    [dd EXCEPT !.pc = "loop",
               !.log = Append(@, Event("failure", dd)),
               !.last_error = [kind |-> kind, node |-> dd.node, attempt |-> dd.attempt],
               !.attempt = (IF d.attempt > d2.attempt THEN d.attempt ELSE d2.attempt) + 1]

\* except Exception as e: log_failure, last_error = e, continue
on_exception(dd, kind) ==
    [dd EXCEPT !.pc = "loop",
               !.log = Append(@, Event("failure", dd)),
               !.last_error = [kind |-> kind, node |-> dd.node, attempt |-> dd.attempt],
               !.attempt = @ + 1]

\* mutant: the result is kept but the loop goes on
on_return_keeps_looping(dd, content) ==
    [dd EXCEPT !.pc = "loop",
               !.result = [content |-> content, node |-> dd.node, attempt |-> dd.attempt],
               !.attempt = @ + 1]

\* return response / return content / return full_content
on_return(dd, content) ==
    [dd EXCEPT !.pc = "returned",
               !.result = [content |-> content, node |-> dd.node, attempt |-> dd.attempt]]

\* mutant: the validator's verdict is not honoured
validate_lenient(content) ==
    CASE content = "none" -> "raise"
      [] OTHER -> "true"

\* the caller's validator applied to the content: its verdict, or "raise"
validate(content) ==
    CASE content = "good" -> "true"
      [] content = "bad" -> "false"
      [] OTHER -> "raise"

\* the try block of chat after a response came back: the validator, then return
after_response(dd, content) ==
    IF dd.validator /\ validate(content) = "false"
    THEN on_exception(dd, "validation")
    ELSE IF dd.validator /\ validate(content) = "raise"
    THEN on_exception(dd, "validator_raised")
    ELSE on_return(dd, content)

\* the attempt went through: the adapter answered and the validator, when
\* given, accepted the answer
Accepted(dd, content) == dd.validator => content = "good"

InLoop(dd) ==
    /\ dd.pc = "loop"
    /\ dd.node <= Len(dd.target_pool)
    /\ dd.attempt < dd.max_retries

\* LLMManager.chat is called
chat_start ==
    /\ d.pc = "idle"
    /\ \E pool_name \in PoolNames, validator \in BOOLEAN :
          d' = begin("chat", pool_name, validator, FALSE)
    /\ UNCHANGED <<providers, config, pools, executor, lastOp, d2, prev, threads, hist, req, gem, tq>>

\* one pass of the inner loop of chat: the adapter raises
chat_attempt_error ==
    /\ d.mode = "chat" /\ InLoop(d)
    /\ \E kind \in TransportErrors :
          d' = on_exception(call_adapter(log_attempt(d)), kind)
    /\ UNCHANGED <<providers, config, pools, executor, lastOp, d2, prev, threads, hist, req, gem, tq>>

\* one pass of the inner loop of chat: the adapter returns a response
chat_attempt_response ==
    /\ d.mode = "chat" /\ InLoop(d)
    /\ \E content \in Contents :
          LET dd == call_adapter(log_attempt(d))
              ok == [dd EXCEPT !.n_ok = IF Accepted(dd, content) THEN @ + 1 ELSE @]
          IN d' = after_response(ok, content)
    /\ UNCHANGED <<providers, config, pools, executor, lastOp, d2, prev, threads, hist, req, gem, tq>>

\* mutant: the outer loop skips a channel
next_node_skip(dd) ==
    [dd EXCEPT !.node = @ + 2, !.attempt = 0]

\* mutant: the setting is read again for each channel
next_node_rereads(dd) ==
    [dd EXCEPT !.node = @ + 1, !.attempt = 0, !.max_retries = get_max_retries]

\* the inner loop ran out (range(max_retries) is exhausted): the warning is
\* logged and the outer loop takes the next channel
next_node(dd) ==
    [dd EXCEPT !.node = @ + 1, !.attempt = 0]

next_channel ==
    /\ d.pc = "loop"
    /\ d.node <= Len(d.target_pool)
    /\ d.attempt >= d.max_retries
    /\ d' = next_node(d)
    /\ UNCHANGED <<providers, config, pools, executor, lastOp, d2, prev, threads, hist, req, gem, tq>>

\* mutant: the generic error is raised whatever last_error holds
final_error_generic(dd) ==
    [kind |-> "all_unavailable", node |-> 0, attempt |-> 0]

\* raise last_error or ValueError("all channels unavailable")
final_error(dd) ==
    IF dd.last_error # NoError THEN dd.last_error
    ELSE [kind |-> "all_unavailable", node |-> 0, attempt |-> 0]

\* the outer loop ran out: log_exhausted, then the raise
exhausted ==
    /\ d.pc = "loop"
    /\ d.node > Len(d.target_pool)
    /\ d' = [d EXCEPT !.pc = "raised",
                      !.log = Append(@, [ev |-> "exhausted", node |-> 0, attempt |-> 0]),
                      !.raised = final_error(d)]
    /\ UNCHANGED <<providers, config, pools, executor, lastOp, d2, prev, threads, hist, req, gem, tq>>

\* what the awaited client call can raise: the transport errors, an HTTP
\* error status, a body that cannot be read as a response
AdapterErrors == TransportErrors \cup {"http_status", "malformed"}

\* one pass of the inner loop of chat: the adapter raises, whatever the error
chat_attempt_raises ==
    /\ d.mode = "chat" /\ InLoop(d)
    /\ \E kind \in AdapterErrors :
          d' = on_exception(call_adapter(log_attempt(d)), kind)
    /\ UNCHANGED <<providers, config, pools, executor, lastOp, d2, prev, threads, hist,
                   req, gem, tq>>

\* the call is over (return response, or the raise reached the caller): its
\* locals are gone; prev keeps what the call was, as history
chat_done ==
    /\ d.mode = "chat"
    /\ d.pc \in {"returned", "raised"}
    /\ prev' = d
    /\ d' = Idle
    /\ UNCHANGED <<providers, config, pools, executor, lastOp, d2, threads, hist, req, gem, tq>>

\* ------------------------------------------------------------------ a second call
\* a second coroutine runs LLMManager.chat on the same manager; it gives way to
\* the other one at its await, between the adapter call and what comes back
chat2_start ==
    /\ d2.pc = "idle"
    /\ \E pool_name \in PoolNames, validator \in BOOLEAN :
          d2' = begin("chat", pool_name, validator, FALSE)
    /\ UNCHANGED <<providers, config, pools, d, executor, lastOp, prev, threads, hist, req, gem, tq>>

\* the top of the try block up to the await of the adapter call
chat2_call ==
    /\ InLoop(d2)
    /\ d2' = [call_adapter(log_attempt(d2)) EXCEPT !.pc = "awaiting"]
    /\ UNCHANGED <<providers, config, pools, d, executor, lastOp, prev, threads, hist, req, gem, tq>>

\* the awaited call raises
chat2_error ==
    /\ d2.pc = "awaiting"
    /\ \E kind \in TransportErrors : d2' = on_exception(d2, kind)
    /\ UNCHANGED <<providers, config, pools, d, executor, lastOp, prev, threads, hist, req, gem, tq>>

\* the awaited call returns a response
chat2_response ==
    /\ d2.pc = "awaiting"
    /\ \E content \in Contents :
          LET ok == [d2 EXCEPT !.n_ok = IF Accepted(d2, content) THEN @ + 1 ELSE @]
          IN d2' = after_response(ok, content)
    /\ UNCHANGED <<providers, config, pools, d, executor, lastOp, prev, threads, hist, req, gem, tq>>

next_channel2 ==
    /\ d2.pc = "loop"
    /\ d2.node <= Len(d2.target_pool)
    /\ d2.attempt >= d2.max_retries
    /\ d2' = next_node(d2)
    /\ UNCHANGED <<providers, config, pools, d, executor, lastOp, prev, threads, hist, req, gem, tq>>

exhausted2 ==
    /\ d2.pc = "loop"
    /\ d2.node > Len(d2.target_pool)
    /\ d2' = [d2 EXCEPT !.pc = "raised",
                        !.log = Append(@, [ev |-> "exhausted", node |-> 0, attempt |-> 0]),
                        !.raised = final_error(d2)]
    /\ UNCHANGED <<providers, config, pools, d, executor, lastOp, prev, threads, hist, req, gem, tq>>

\* ------------------------------------------------------------------ streaming
\* the text of the k-th chunk of a stream
Piece(dd, k) == <<dd.node, dd.attempt, k>>

\* mutant: the text of the attempts before stays in the accumulator
open_stream_keeps_text(dd) == dd

\* full_content = "" before the streaming call
open_stream(dd) == [dd EXCEPT !.full_content = <<>>]

\* mutant: the piece is put in front of the text
append_piece_in_front(dd, piece) == [dd EXCEPT !.full_content = <<piece>> \o @]

\* full_content += content_piece
append_piece(dd, piece) == [dd EXCEPT !.full_content = Append(@, piece)]

\* mutant: what an earlier attempt passed to on_chunk is taken back when a new
\* attempt passes its first text
call_on_chunk_retracts(dd, text) ==
    IF dd.on_chunk
    THEN [dd EXCEPT !.chunks =
            Append(SelectSeq(@, LAMBDA c : c.node = dd.node /\ c.attempt = dd.attempt),
                   [node |-> dd.node, attempt |-> dd.attempt, text |-> text])]
    ELSE dd

\* if on_chunk: on_chunk(text)
call_on_chunk(dd, text) ==
    IF dd.on_chunk
    THEN [dd EXCEPT !.chunks = Append(@, [node |-> dd.node, attempt |-> dd.attempt,
                                          text |-> text])]
    ELSE dd

\* LLMManager.chat_stream is called
chat_stream_start ==
    /\ d.pc = "idle"
    /\ \E pool_name \in PoolNames, on_chunk \in BOOLEAN :
          d' = begin("chat_stream", pool_name, FALSE, on_chunk)
    /\ UNCHANGED <<providers, config, pools, executor, lastOp, d2, prev, threads, hist, req, gem, tq>>

\* a gemini or anthropic channel: the blocking call raises
stream_blocking_error ==
    /\ d.mode = "chat_stream" /\ InLoop(d)
    /\ adapter_method(d) = "create_chat_completion"
    /\ \E kind \in TransportErrors :
          d' = on_exception(call_adapter(log_attempt(d)), kind)
    /\ UNCHANGED <<providers, config, pools, executor, lastOp, d2, prev, threads, hist, req, gem, tq>>

\* mutant: an exception of on_chunk leaves chat_stream
stream_blocking_response_propagates ==
    /\ d.mode = "chat_stream" /\ InLoop(d)
    /\ adapter_method(d) = "create_chat_completion"
    /\ \E content \in Contents, callback_raises \in BOOLEAN :
          LET dd == call_on_chunk(call_adapter(log_attempt(d)), content) IN
          /\ callback_raises => d.on_chunk
          /\ d' = IF callback_raises
                  THEN [dd EXCEPT !.pc = "raised",
                                  !.raised = [kind |-> "on_chunk_raised", node |-> dd.node,
                                              attempt |-> dd.attempt]]
                  ELSE on_return([dd EXCEPT !.n_ok = @ + 1], content)
    /\ UNCHANGED <<providers, config, pools, executor, lastOp, d2, prev, threads, hist, req, gem, tq>>

\* a gemini or anthropic channel: the blocking call returns; the content goes
\* to on_chunk (which may raise) and is returned
stream_blocking_response ==
    /\ d.mode = "chat_stream" /\ InLoop(d)
    /\ adapter_method(d) = "create_chat_completion"
    /\ \E content \in Contents, callback_raises \in BOOLEAN :
          LET dd == call_on_chunk(call_adapter(log_attempt(d)), content) IN
          /\ callback_raises => d.on_chunk
          /\ d' = IF callback_raises
                  THEN on_exception(dd, "on_chunk_raised")
                  ELSE on_return([dd EXCEPT !.n_ok = @ + 1], content)
    /\ UNCHANGED <<providers, config, pools, executor, lastOp, d2, prev, threads, hist, req, gem, tq>>

\* an openai channel: full_content = "" and create(stream=True), which raises
\* or hands back a stream
stream_open ==
    /\ d.mode = "chat_stream" /\ InLoop(d)
    /\ adapter_method(d) # "create_chat_completion"
    /\ \E opened \in BOOLEAN, kind \in TransportErrors :
          LET dd == call_adapter(open_stream(log_attempt(d))) IN
          d' = IF opened THEN [dd EXCEPT !.pc = "streaming"]
               ELSE on_exception(dd, kind)
    /\ UNCHANGED <<providers, config, pools, executor, lastOp, d2, prev, threads, hist, req, gem, tq>>

\* async for chunk in stream: a chunk with text is appended to full_content and
\* passed to on_chunk, which may raise
stream_chunk ==
    /\ d.pc = "streaming"
    /\ Len(d.full_content) < MaxChunks
    /\ \E callback_raises \in BOOLEAN :
          LET piece == Piece(d, Len(d.full_content) + 1)
              dd == call_on_chunk(append_piece(d, piece), piece)
          IN /\ callback_raises => d.on_chunk
             /\ d' = IF callback_raises THEN on_exception(dd, "on_chunk_raised") ELSE dd
    /\ UNCHANGED <<providers, config, pools, executor, lastOp, d2, prev, threads, hist, req, gem, tq>>

\* the stream raises while it is iterated
stream_break ==
    /\ d.pc = "streaming"
    /\ \E kind \in TransportErrors : d' = on_exception(d, kind)
    /\ UNCHANGED <<providers, config, pools, executor, lastOp, d2, prev, threads, hist, req, gem, tq>>

\* the stream ends: return full_content
stream_end ==
    /\ d.pc = "streaming"
    /\ d' = on_return([d EXCEPT !.n_ok = @ + 1], d.full_content)
    /\ UNCHANGED <<providers, config, pools, executor, lastOp, d2, prev, threads, hist, req, gem, tq>>

\* ------------------------------------------------------------------ rows
\* the shapes a row of the builder's input takes (its id is its position)
BuildShapes ==
    {Row(0, "metadata", "openai", prim, prio, TRUE, OneKey, OneModel) :
        prim \in BOOLEAN, prio \in 1..3}
    \cup {Row(0, "metadata", "openai", prim, 1, TRUE, TwoKeys, TwoModels) :
            prim \in BOOLEAN}
    \cup {Row(0, "metadata", "openai", FALSE, 1, FALSE, OneKey, OneModel),
          Row(0, "analysis", "gemini", TRUE, 2, TRUE, OneKey, TwoModels)}

\* every table of at most max rows whose rows have one of the shapes; ids are
\* 1..n as the autoincrement key assigns them
Registries(shapeSet, max) ==
    UNION {{{[f[i] EXCEPT !.id = i] : i \in 1..n} : f \in [1..n -> shapeSet]} :
              n \in 0..max}

\* the registries the dispatches run against: an empty table; a pool of one
\* gemini channel beside a pool whose only row is disabled; the two-row
\* "primary overrides priority" table beside a two-model anthropic row; a pool
\* of three channels beside a row whose credential text holds no credential
DispatchRegistries ==
    {{},
     {Row(1, "metadata", "gemini", FALSE, 1, TRUE, OneKey, OneModel),
      Row(2, "analysis", "openai", FALSE, 1, FALSE, OneKey, OneModel)},
     {Row(1, "metadata", "openai", FALSE, 1, TRUE, OneKey, <<"x">>),
      Row(2, "metadata", "openai", TRUE, 5, TRUE, OneKey, <<"y">>),
      Row(3, "analysis", "anthropic", FALSE, 1, TRUE, OneKey, TwoModels)},
     {Row(1, "metadata", "openai", FALSE, 1, TRUE, OneKey, TwoModels),
      Row(2, "metadata", "gemini", FALSE, 2, TRUE, OneKey, OneModel),
      Row(3, "analysis", "openai", FALSE, 1, TRUE, <<" ", ",", " ">>, OneModel)}}

\* values of the llm_max_retries setting: absent, "1", "2", "0", "-1", "x"
ConfigValues == {None, <<"1">>, <<"2">>, <<"0">>, <<"-", "1">>, <<"x">>}

\* LLMManager.__init__: the pools are built from the table
Built ==
    {[t \in PoolTypes |-> IF t = "metadata" THEN build_pool(em) ELSE build_pool(ea)] :
        em \in get_enabled_providers("metadata"),
        ea \in get_enabled_providers("analysis")}

\* ------------------------------------------------------------------ the Gemini adapter
GeminiRoles == {"system", "user", "assistant", "tool"}
GeminiTexts == {"", "a", "b"}

MessageLists ==
    UNION {[1..n -> [role : GeminiRoles, content : GeminiTexts]] : n \in 0..MaxMessages}

\* the loop over messages of create_chat_completion, its contents list: a
\* system message adds nothing, an assistant message an entry of role model,
\* any other message an entry of role user
RECURSIVE gemini_contents(_)
gemini_contents(messages) ==
    IF messages = <<>> THEN <<>>
    ELSE LET msg == Head(messages)
             rest == gemini_contents(Tail(messages))
         IN  IF msg.role = "system" THEN rest
             ELSE IF msg.role = "assistant"
                  THEN <<[role |-> "model", text |-> msg.content]>> \o rest
                  ELSE <<[role |-> "user", text |-> msg.content]>> \o rest

\* the same loop, its system_instruction: None, assigned anew at every system
\* message
system_instruction(messages) ==
    LET S == {i \in DOMAIN messages : messages[i].role = "system"}
    IN  IF S = {} THEN None
        ELSE messages[CHOOSE i \in S : \A j \in S : j <= i].content

\* if system_instruction: None and the empty text are false
truthy(text) == text # None /\ text # ""

\* request_body: contents always, systemInstruction when it is truthy
request_body(messages) ==
    [contents |-> gemini_contents(messages),
     has_system |-> truthy(system_instruction(messages)),
     systemInstruction |-> system_instruction(messages)]

NoGemini == [pc |-> "idle", messages |-> <<>>, request |-> request_body(<<>>)]

\* create_chat_completion up to the post of the request
gemini_post ==
    /\ gem.pc = "idle"
    /\ \E messages \in MessageLists :
          gem' = [pc |-> "posted", messages |-> messages,
                  request |-> request_body(messages)]
    /\ UNCHANGED <<providers, config, pools, d, executor, lastOp, d2, prev, threads, hist,
                   req, tq>>

\* ------------------------------------------------------------------ the translation queue
\* the papers tasks are added for, and the worker loops that can be alive
Papers == {1, 2}
Loops == {1, 2}

\* a coroutine of start_worker: not running, at the sleep of the while loop,
\* inside _process_next_task waiting for an event of translate_pdf, waiting
\* for the end of the event stream after a finish or error event, or in the
\* sleep of a retry with the retry not yet committed
NoLoop == [pc |-> "none", task |-> 0, unsaved |-> 0, rc |-> 0]

\* TranslationQueueManager.__init__ on an empty translation_queue table: no
\* worker, no current task (0 for None)
QueueIdle ==
    [is_running |-> FALSE, current_task_id |-> 0, retry_max |-> 0, tasks |-> <<>>,
     starting |-> 0, loops |-> [l \in Loops |-> NoLoop], result |-> "none"]

\* the ids of the tasks of a paper that are pending or processing
InQueue(q, paper) ==
    {i \in DOMAIN q.tasks : /\ q.tasks[i].paper = paper
                            /\ q.tasks[i].status \in {"pending", "processing"}}

\* add_to_queue on a paper that exists: ValueError when a task of the paper is
\* pending or processing, else a pending task is inserted
add_to_queue ==
    /\ \E paper \in Papers :
          /\ InQueue(tq, paper) = {} => Len(tq.tasks) < MaxTasks
          /\ tq' = IF InQueue(tq, paper) # {}
                  THEN [tq EXCEPT !.result = "in_queue"]
                  ELSE [tq EXCEPT !.tasks = Append(@, [paper |-> paper, status |-> "pending",
                                                       retry_count |-> 0]),
                                  !.result = "added"]
    /\ UNCHANGED <<providers, config, pools, d, executor, lastOp, d2, prev, threads, hist,
                   req, gem>>

\* cancel_task: False when the task is missing or not pending, else the task
\* is cancelled
cancel_task ==
    /\ \E task_id \in 1..MaxTasks :
          tq' = IF task_id \notin DOMAIN tq.tasks
                THEN [tq EXCEPT !.result = "refused"]
                ELSE IF tq.tasks[task_id].status # "pending"
                THEN [tq EXCEPT !.result = "refused"]
                ELSE [tq EXCEPT !.tasks[task_id].status = "cancelled",
                                !.result = "cancelled"]
    /\ UNCHANGED <<providers, config, pools, d, executor, lastOp, d2, prev, threads, hist,
                   req, gem>>

\* POST /queue/start: nothing when is_running, else start_worker is added as a
\* background task
start_translation_worker ==
    /\ tq.starting < Cardinality({l \in Loops : tq.loops[l].pc = "none"})
    /\ tq' = IF tq.is_running THEN [tq EXCEPT !.result = "running"]
             ELSE [tq EXCEPT !.starting = @ + 1, !.result = "started"]
    /\ UNCHANGED <<providers, config, pools, d, executor, lastOp, d2, prev, threads, hist,
                   req, gem>>

\* stop_worker, which POST /queue/stop calls
stop_worker ==
    /\ tq' = [tq EXCEPT !.is_running = FALSE, !.result = "stopped"]
    /\ UNCHANGED <<providers, config, pools, d, executor, lastOp, d2, prev, threads, hist,
                   req, gem>>

\* _process_next_task up to its first await: return when no task is pending,
\* else the first pending task (the tasks have one priority, so the oldest)
\* is made processing, its id stored in _current_task_id and translate_pdf
\* is iterated
process_next_task(q, l) ==
    LET pend == {i \in DOMAIN q.tasks : q.tasks[i].status = "pending"}
        first == CHOOSE i \in pend : \A j \in pend : i <= j
    IN  IF pend = {}
        THEN [q EXCEPT !.loops[l] = [NoLoop EXCEPT !.pc = "sleep"]]
        ELSE [q EXCEPT !.tasks[first].status = "processing",
                       !.current_task_id = first,
                       !.loops[l] = [NoLoop EXCEPT !.pc = "events", !.task = first]]

\* the background task runs start_worker: return when is_running, else the
\* flag is set and the while loop entered
start_worker ==
    \E l \in Loops :
        /\ tq.starting > 0
        /\ tq.loops[l].pc = "none"
        /\ tq' = IF tq.is_running
                 THEN [tq EXCEPT !.starting = @ - 1]
                 ELSE process_next_task([tq EXCEPT !.starting = @ - 1, !.is_running = TRUE], l)
        /\ UNCHANGED <<providers, config, pools, d, executor, lastOp, d2, prev, threads,
                       hist, req, gem>>

\* asyncio.sleep(1) is over: the while condition is read, and the loop ends
\* or calls _process_next_task
worker_wake ==
    \E l \in Loops :
        /\ tq.loops[l].pc = "sleep"
        /\ tq' = IF ~tq.is_running
                 THEN [tq EXCEPT !.loops[l] = NoLoop]
                 ELSE process_next_task(tq, l)
        /\ UNCHANGED <<providers, config, pools, d, executor, lastOp, d2, prev, threads,
                       hist, req, gem>>

\* the finally of _process_next_task and the return to the sleep of the loop
end_of_task(q, l) ==
    [q EXCEPT !.current_task_id = 0, !.loops[l] = [NoLoop EXCEPT !.pc = "sleep"]]

\* mutant: an error event always retries
on_error_event_always_retries(q, l) ==
    LET id == q.current_task_id IN
    [q EXCEPT !.loops[l].pc = "backoff", !.loops[l].unsaved = id,
              !.loops[l].rc = q.tasks[id].retry_count + 1]

\* the error branch of the event loop, on the task _current_task_id names:
\* below retry_max the retry is prepared and slept on, else the task fails
on_error_event(q, l) ==
    LET id == q.current_task_id IN
    IF q.tasks[id].retry_count < q.retry_max
    THEN [q EXCEPT !.loops[l].pc = "backoff", !.loops[l].unsaved = id,
                   !.loops[l].rc = q.tasks[id].retry_count + 1]
    ELSE [q EXCEPT !.tasks[id].status = "failed", !.loops[l].pc = "closing"]

\* translate_pdf gives an event: the task is read again by _current_task_id
\* (the loop is left when there is none); progress changes no status, finish
\* completes the task, error retries or fails it
worker_event ==
    \E l \in Loops, event_type \in {"progress", "finish", "error"} :
        /\ tq.loops[l].pc = "events"
        /\ tq' = IF tq.current_task_id = 0 THEN end_of_task(tq, l)
                 ELSE IF event_type = "progress" THEN tq
                 ELSE IF event_type = "finish"
                 THEN [tq EXCEPT !.tasks[tq.current_task_id].status = "completed",
                                 !.loops[l].pc = "closing"]
                 ELSE on_error_event(tq, l)
        /\ UNCHANGED <<providers, config, pools, d, executor, lastOp, d2, prev, threads,
                       hist, req, gem>>

\* the sleep of the retry is over: session.commit() writes the retry count
\* and the status pending
worker_retry_commit ==
    \E l \in Loops :
        /\ tq.loops[l].pc = "backoff"
        /\ tq' = [tq EXCEPT !.tasks[tq.loops[l].unsaved].status = "pending",
                            !.tasks[tq.loops[l].unsaved].retry_count = tq.loops[l].rc,
                            !.loops[l].pc = "closing"]
        /\ UNCHANGED <<providers, config, pools, d, executor, lastOp, d2, prev, threads,
                       hist, req, gem>>

\* the event stream ends after its finish or error event
worker_stream_end ==
    \E l \in Loops :
        /\ tq.loops[l].pc = "closing"
        /\ tq' = end_of_task(tq, l)
        /\ UNCHANGED <<providers, config, pools, d, executor, lastOp, d2, prev, threads,
                       hist, req, gem>>

\* an exception inside the event loop: the task _current_task_id names, if
\* any, fails whatever its retry count
worker_exception ==
    \E l \in Loops :
        /\ tq.loops[l].pc = "events"
        /\ tq' = IF tq.current_task_id = 0 THEN end_of_task(tq, l)
                 ELSE end_of_task([tq EXCEPT !.tasks[tq.current_task_id].status = "failed"], l)
        /\ UNCHANGED <<providers, config, pools, d, executor, lastOp, d2, prev, threads,
                       hist, req, gem>>

\* no second call, no earlier call, no rebuild running

Quiet ==
    /\ d2 = Idle
    /\ prev = Idle
    /\ threads = [w \in Runners |-> IdleThread]
    /\ hist = NoHistory
    /\ req = NoRequest
    /\ gem = NoGemini
    /\ tq = QueueIdle

Init ==
    /\ providers \in DispatchRegistries
    /\ config \in ConfigValues
    /\ pools \in Built
    /\ d = Idle
    /\ executor = 0
    /\ lastOp = [op |-> "none", id |-> 0, cleared |-> {}]
    /\ Quiet

Next ==
    \/ chat_start
    \/ chat_attempt_error
    \/ chat_attempt_response
    \/ next_channel
    \/ exhausted
    \/ chat_stream_start
    \/ stream_blocking_error
    \/ stream_blocking_response
    \/ stream_open
    \/ stream_chunk
    \/ stream_break
    \/ stream_end

Spec == Init /\ [][Next]_vars

InitBuild ==
    /\ providers \in Registries(BuildShapes, MaxRecords)
    /\ config = None
    /\ pools = PoolsEmpty
    /\ d = Idle
    /\ executor = 0
    /\ lastOp = [op |-> "none", id |-> 0, cleared |-> {}]
    /\ Quiet

NextBuild == reload_config

SpecBuild == InitBuild /\ [][NextBuild]_vars

\* the shapes of the rows the registry writes act on: rows of the metadata pool
\* type, enabled or not, and enabled rows of the analysis pool type
RegistryShapes ==
    {Row(0, "metadata", "openai", prim, 1, enabled, OneKey, OneModel) :
        prim \in BOOLEAN, enabled \in BOOLEAN}
    \cup {Row(0, "analysis", "openai", prim, 1, TRUE, OneKey, OneModel) :
            prim \in BOOLEAN}

\* the tables the registry writes start from; a row's priority is its id
RegistryTables ==
    UNION {{{[f[i] EXCEPT !.id = i, !.priority = i] : i \in 1..n} :
                f \in [1..n -> RegistryShapes]} : n \in 0..MaxRecords}

InitRegistry ==
    /\ providers \in RegistryTables
    /\ config = None
    /\ pools \in Built
    /\ d = Idle
    /\ executor = 0
    /\ lastOp = [op |-> "none", id |-> 0, cleared |-> {}]
    /\ Quiet

NextRegistry ==
    \/ set_primary
    \/ admin_set_primary
    \/ reload_config_background

SpecRegistry == InitRegistry /\ [][NextRegistry]_vars

\* the registry writes, from the empty table of a new database; the rebuilds
\* the admin routes hand to the executor wait there
InitWrites ==
    /\ providers = {}
    /\ config = None
    /\ pools = PoolsEmpty
    /\ d = Idle
    /\ executor = 0
    /\ lastOp = [op |-> "none", id |-> 0, cleared |-> {}]
    /\ Quiet

NextWrites ==
    \/ import_from_json
    \/ add_provider
    \/ create_llm_provider
    \/ update_provider
    \/ update_llm_provider
    \/ delete_provider
    \/ toggle_enabled
    \/ set_primary
    \/ admin_set_primary

SpecWrites == InitWrites /\ [][NextWrites]_vars

\* the table the rebuilds run against: one metadata row of two models
ReloadTables ==
    {{Row(1, "metadata", "openai", FALSE, 1, TRUE, OneKey, TwoModels)}}

\* the server is up: the pools are built, no rebuild runs and none waits
InitReload ==
    /\ providers \in ReloadTables
    /\ config = <<"1">>
    /\ pools \in Built
    /\ d = Idle
    /\ executor = 0
    /\ lastOp = [op |-> "none", id |-> 0, cleared |-> {}]
    /\ Quiet

\* a chat call and the admin writes run on the event loop; the rebuilds the
\* writes submit run on the executor's threads, a step at a time
NextReload ==
    \/ LoopFree /\ chat_start
    \/ LoopFree /\ chat_attempt_error
    \/ LoopFree /\ chat_attempt_response
    \/ LoopFree /\ next_channel
    \/ LoopFree /\ exhausted
    \/ LoopFree /\ admin_toggle_enabled
    \/ LoopFree /\ delete_llm_provider
    \/ reload_take
    \/ reload_build_metadata
    \/ reload_build_analysis
    \/ reload_assign

SpecReload == InitReload /\ [][NextReload]_vars

\* ------------------------------------------------------------------ one call after another
\* the values POST /api/admin/config and the settings page write
SettingValues == {<<"1">>, <<"2">>, <<"0">>, <<"-", "1">>, <<"x">>}

\* routers/admin.set_config for the key llm_max_retries: the row's value is
\* replaced, or the row is added
admin_set_config ==
    /\ \E value \in SettingValues : config' = value
    /\ UNCHANGED <<providers, pools, d, executor, lastOp, d2, prev, threads, hist, req, gem, tq>>

\* one enabled row of two models: a pool of two channels
SeqTables == {{Row(1, "metadata", "openai", FALSE, 1, TRUE, OneKey, TwoModels)}}

InitSeq ==
    /\ providers \in SeqTables
    /\ config \in ConfigValues
    /\ pools \in Built
    /\ d = Idle
    /\ executor = 0
    /\ lastOp = [op |-> "none", id |-> 0, cleared |-> {}]
    /\ Quiet

NextSeq ==
    \/ chat_start
    \/ chat_attempt_error
    \/ chat_attempt_response
    \/ next_channel
    \/ exhausted
    \/ chat_done
    \/ admin_set_config

SpecSeq == InitSeq /\ [][NextSeq]_vars

\* ------------------------------------------------------------------ two calls at once
\* the settings the two calls read their bound from: absent, "1", "2"
PairSettings == {None, <<"1">>, <<"2">>}

InitPair ==
    /\ providers \in SeqTables
    /\ config \in PairSettings
    /\ pools \in Built
    /\ d = Idle
    /\ executor = 0
    /\ lastOp = [op |-> "none", id |-> 0, cleared |-> {}]
    /\ Quiet

NextPair ==
    \/ chat_start
    \/ chat_attempt_error
    \/ chat_attempt_response
    \/ next_channel
    \/ exhausted
    \/ chat2_start
    \/ chat2_call
    \/ chat2_error
    \/ chat2_response
    \/ next_channel2
    \/ exhausted2

SpecPair == InitPair /\ [][NextPair]_vars

\* ------------------------------------------------------------------ rebuilds of an unchanged table
\* a PUT that carries the values the row has (or names no row): the table is
\* as before, and for a row that exists a rebuild is handed to the executor
update_llm_provider_same ==
    /\ update_llm_provider
    /\ providers' = providers

\* a metadata pool of two rows whose ids run against their priorities, and
\* one of two rows of equal priority of which the second is primary, each
\* beside an analysis pool of one row
IdemTables ==
    {{Row(1, "metadata", "openai", FALSE, 2, TRUE, OneKey, OneModel),
      Row(2, "metadata", "gemini", FALSE, 1, TRUE, OneKey, OneModel),
      Row(3, "analysis", "openai", FALSE, 1, TRUE, OneKey, OneModel)},
     {Row(1, "metadata", "openai", FALSE, 1, TRUE, OneKey, OneModel),
      Row(2, "metadata", "gemini", TRUE, 1, TRUE, OneKey, OneModel),
      Row(3, "analysis", "openai", FALSE, 1, TRUE, OneKey, OneModel)}}

InitIdem ==
    /\ providers \in IdemTables
    /\ config = <<"1">>
    /\ pools \in Built
    /\ d = Idle
    /\ executor = 0
    /\ lastOp = [op |-> "none", id |-> 0, cleared |-> {}]
    /\ Quiet

NextIdem ==
    \/ LoopFree /\ chat_start
    \/ LoopFree /\ chat_attempt_error
    \/ LoopFree /\ chat_attempt_response
    \/ LoopFree /\ next_channel
    \/ LoopFree /\ exhausted
    \/ LoopFree /\ update_llm_provider_same
    \/ reload_call
    \/ reload_take
    \/ reload_build_metadata
    \/ reload_build_analysis
    \/ reload_assign

SpecIdem == InitIdem /\ [][NextIdem]_vars

\* ------------------------------------------------------------------ admin requests beside the executor
\* one enabled row: a second one can be made, and the row can be changed
AdminTables == {{Row(1, "metadata", "openai", FALSE, 1, TRUE, OneKey, OneModel)}}

InitAdmin ==
    /\ providers \in AdminTables
    /\ config = <<"1">>
    /\ pools \in Built
    /\ d = Idle
    /\ executor = 0
    /\ lastOp = [op |-> "none", id |-> 0, cleared |-> {}]
    /\ Quiet

NextAdmin ==
    \/ route_not_found
    \/ route_begin
    \/ route_commit
    \/ route_submit
    \/ route_respond
    \/ reload_take
    \/ reload_build_metadata
    \/ reload_build_analysis
    \/ reload_assign

SpecAdmin == InitAdmin /\ [][NextAdmin]_vars

\* ------------------------------------------------------------------ the channels of a build
\* credential and model texts with blank entries: nothing but blanks, and
\* entries with blanks around and blank entries between the commas
BlankKeys == <<" ", ",", " ">>
SpacedKeys == <<" ", "a", ",", ",", " ", ",", "b", " ">>
GappedModels == <<",", "m", ",", ",", "n">>

\* rows of the two pool types, enabled or not, whose texts hold two entries,
\* one, none, or blank ones
ChannelShapes ==
    {Row(0, "metadata", "openai", FALSE, 1, TRUE, keys, OneModel) :
        keys \in {OneKey, BlankKeys, <<>>}}
    \cup {Row(0, "metadata", "openai", FALSE, 2, TRUE, SpacedKeys, GappedModels),
          Row(0, "metadata", "gemini", FALSE, 1, TRUE, TwoKeys, <<>>),
          Row(0, "metadata", "openai", TRUE, 1, TRUE, TwoKeys, TwoModels),
          Row(0, "metadata", "openai", FALSE, 1, FALSE, TwoKeys, TwoModels),
          Row(0, "analysis", "gemini", FALSE, 1, TRUE, OneKey, TwoModels),
          Row(0, "analysis", "openai", FALSE, 1, FALSE, SpacedKeys, OneModel)}

InitChannels ==
    /\ providers \in Registries(ChannelShapes, MaxRows)
    /\ config = None
    /\ pools = PoolsEmpty
    /\ d = Idle
    /\ executor = 0
    /\ lastOp = [op |-> "none", id |-> 0, cleared |-> {}]
    /\ Quiet

NextChannels == reload_config

SpecChannels == InitChannels /\ [][NextChannels]_vars

\* ------------------------------------------------------------------ the translation queue and its worker
InitWorkers ==
    /\ providers = {}
    /\ config = None
    /\ pools = PoolsEmpty
    /\ d = Idle
    /\ executor = 0
    /\ lastOp = [op |-> "none", id |-> 0, cleared |-> {}]
    /\ d2 = Idle
    /\ prev = Idle
    /\ threads = [w \in Runners |-> IdleThread]
    /\ hist = NoHistory
    /\ req = NoRequest
    /\ gem = NoGemini
    /\ tq \in {[QueueIdle EXCEPT !.retry_max = n] : n \in 0..MaxRetryMax}

\* the worker started and stopped while tasks are added and translated
NextWorkers ==
    \/ add_to_queue
    \/ start_translation_worker
    \/ stop_worker
    \/ start_worker
    \/ worker_wake
    \/ worker_event
    \/ worker_retry_commit
    \/ worker_stream_end

SpecWorkers == InitWorkers /\ [][NextWorkers]_vars

\* tasks added and cancelled beside a worker that is started and not stopped
NextQueue ==
    \/ add_to_queue
    \/ cancel_task
    \/ start_translation_worker
    \/ start_worker
    \/ worker_wake
    \/ worker_event
    \/ worker_retry_commit
    \/ worker_stream_end
    \/ worker_exception

SpecQueue == InitWorkers /\ [][NextQueue]_vars

\* ------------------------------------------------------------------ the Gemini adapter alone
InitGemini ==
    /\ providers = {}
    /\ config = None
    /\ pools = PoolsEmpty
    /\ d = Idle
    /\ executor = 0
    /\ lastOp = [op |-> "none", id |-> 0, cleared |-> {}]
    /\ Quiet

NextGemini == gemini_post

SpecGemini == InitGemini /\ [][NextGemini]_vars

\* ------------------------------------------------------------------ chat_stream alone
\* a metadata pool of an openai channel before a gemini channel, an analysis
\* pool of one anthropic channel
StreamTables ==
    {{Row(1, "metadata", "openai", FALSE, 1, TRUE, OneKey, OneModel),
      Row(2, "metadata", "gemini", FALSE, 2, TRUE, OneKey, OneModel),
      Row(3, "analysis", "anthropic", FALSE, 1, TRUE, OneKey, OneModel)}}

InitStream ==
    /\ providers \in StreamTables
    /\ config \in PairSettings
    /\ pools \in Built
    /\ d = Idle
    /\ executor = 0
    /\ lastOp = [op |-> "none", id |-> 0, cleared |-> {}]
    /\ Quiet

NextStream ==
    \/ chat_stream_start
    \/ stream_blocking_error
    \/ stream_blocking_response
    \/ stream_open
    \/ stream_chunk
    \/ stream_break
    \/ stream_end
    \/ next_channel
    \/ exhausted

SpecStream == InitStream /\ [][NextStream]_vars

\* ------------------------------------------------------------------ the errors of an attempt
InitErrors ==
    /\ providers \in SeqTables
    /\ config \in PairSettings
    /\ pools \in Built
    /\ d = Idle
    /\ executor = 0
    /\ lastOp = [op |-> "none", id |-> 0, cleared |-> {}]
    /\ Quiet

NextErrors ==
    \/ chat_start
    \/ chat_attempt_raises
    \/ chat_attempt_response
    \/ next_channel
    \/ exhausted

SpecErrors == InitErrors /\ [][NextErrors]_vars

\* ------------------------------------------------------------------ claims: dispatch
Started == d.pc # "idle" /\ d.target_pool # <<>>
LastCall == d.calls[Len(d.calls)]

\* the k-th adapter call of a dispatch that retries n times per channel
NthCall(k, n) == [node |-> ((k - 1) \div n) + 1, attempt |-> (k - 1) % n]

AttemptErrors == TransportErrors \cup {"validation", "validator_raised", "on_chunk_raised"}

Max0(n) == IF n > 0 THEN n ELSE 0

\* C2: a dispatch on a non-empty pool returns only if an attempt went through;
\* until it has returned or raised it can take a further step; when no attempt
\* went through it ends by raising, with no result, and it raises only after
\* every channel of the pool got its whole retry budget of calls.
C2_AllFailedRaises ==
    Started =>
        /\ d.pc = "returned" => d.n_ok >= 1
        /\ d.pc \notin {"returned", "raised"} => ENABLED Next
        /\ d.pc = "raised" =>
              /\ d.n_ok = 0
              /\ d.result = NoResult
              /\ d.raised # NoError
              /\ \A n \in 1..Len(d.target_pool) :
                    Cardinality({k \in 1..Len(d.calls) : d.calls[k].node = n})
                        = Max0(d.max_retries)

\* chat_stream raised after three channels failed twice each, the last attempt
\* having delivered chunks before it broke
C2_Witness ==
    /\ d.pc = "raised" /\ d.mode = "chat_stream"
    /\ Len(d.target_pool) = 3 /\ d.max_retries = 2
    /\ Len(d.calls) = 6
    /\ d.full_content # <<>>

\* C3 as stated: every exhaustion raises the error of the final attempt on the
\* last channel, whatever the retry setting is read as.
C3_RaisesLastCause ==
    (Started /\ d.pc = "raised") =>
        /\ d.raised.kind \in AttemptErrors
        /\ d.raised.node = Len(d.target_pool)
        /\ d.raised.attempt = d.max_retries - 1

\* C3 amended: when the retry setting is read as N >= 1, exhaustion raises the
\* error of the final attempt (attempt N) on the last channel; when it is read
\* as 0 or less no attempt is made and the error raised is the generic "all
\* channels unavailable" one, which carries no cause.
C3_RaisesLastCauseIfAttempted ==
    (Started /\ d.pc = "raised") =>
        IF d.max_retries >= 1
        THEN /\ d.raised = d.last_error
             /\ d.raised.kind \in AttemptErrors
             /\ d.raised.node = Len(d.target_pool)
             /\ d.raised.attempt = d.max_retries - 1
             /\ d.raised.node = LastCall.node
             /\ d.raised.attempt = LastCall.attempt
        ELSE /\ d.raised.kind = "all_unavailable"
             /\ d.calls = <<>>

\* chat exhausted a two-channel pool with two retries; the last attempt was
\* rejected by the validator
C3_Witness ==
    /\ d.pc = "raised" /\ d.mode = "chat"
    /\ Len(d.target_pool) = 2 /\ d.max_retries = 2
    /\ d.raised = [kind |-> "validation", node |-> 2, attempt |-> 1]

\* C4: in chat, an attempt whose response the validator rejects is one failed
\* attempt like any other: the call was made, the loop stays on the channel with
\* the attempt number one higher, the router leaves a channel only when its
\* attempts are used up, and a rejected response is never the result.
C4_ValidatorRejectionIsAnAttempt ==
    /\ [](d.pc = "returned" /\ d.mode = "chat" /\ d.validator
            => d.result.content = "good")
    /\ [][(d'.last_error # d.last_error /\ d'.last_error.kind = "validation") =>
            /\ d.mode = "chat" /\ d.validator
            /\ d'.pc = "loop"
            /\ d'.node = d.node
            /\ d'.attempt = d.attempt + 1
            /\ d'.calls = Append(d.calls, [node |-> d.node, attempt |-> d.attempt])
            /\ d'.last_error.node = d.node /\ d'.last_error.attempt = d.attempt
            /\ d'.result = NoResult]_vars
    /\ [][(d.pc = "loop" /\ d'.node # d.node) =>
            /\ d'.node = d.node + 1
            /\ d.attempt = Max0(d.max_retries)]_vars

\* the validator rejected all three responses of the first channel and chat
\* moved on to the second
C4_Witness ==
    /\ d.mode = "chat" /\ d.validator /\ d.pc = "loop"
    /\ d.max_retries = 3
    /\ d.node = 2 /\ d.attempt = 0
    /\ d.last_error = [kind |-> "validation", node |-> 1, attempt |-> 2]
    /\ Len(d.calls) = 3

\* C5: a dispatch on a pool without channels, or on a name pools has no entry
\* for, ends at once with the pool-empty error: no adapter call, no read of the
\* retry setting, no logged event, and nothing happens afterwards.
C5_EmptyPoolRaisesAtOnce ==
    /\ [][(d.pc = "idle" /\ d'.pc # "idle" /\ pools_get(d'.pool_name) = <<>>) =>
            /\ d'.pc = "raised"
            /\ d'.raised.kind = "pool_empty"
            /\ d'.calls = <<>> /\ d'.log = <<>> /\ d'.config_reads = 0]_vars
    /\ [][(d.pc = "raised" /\ d.raised.kind = "pool_empty") => d' = d]_vars

\* chat_stream on the analysis pool, whose only enabled row has a blank
\* credential list
C5_Witness ==
    /\ d.pc = "raised" /\ d.raised.kind = "pool_empty"
    /\ d.mode = "chat_stream" /\ d.pool_name = "analysis"
    /\ \E p \in providers : p.pool_type = "analysis" /\ p.enabled
    /\ pools["analysis"] = <<>>

\* C6: as soon as an attempt went through the dispatch has returned its result:
\* that attempt is the last adapter call of the dispatch, it is the only one
\* that went through, and a returned dispatch does nothing more.
C6_SuccessReturnsAtOnce ==
    /\ [](d.n_ok >= 1 =>
            /\ d.pc = "returned"
            /\ d.n_ok = 1
            /\ d.result.node = LastCall.node
            /\ d.result.attempt = LastCall.attempt
            /\ \A k \in 1..Len(d.calls) : d.calls[k].node <= d.result.node)
    /\ [][d.pc = "returned" => d' = d]_vars

\* chat_stream returned from the second of three channels: the third was never
\* called
C6_Witness ==
    /\ d.pc = "returned" /\ d.mode = "chat_stream"
    /\ Len(d.target_pool) = 3
    /\ d.result.node = 2
    /\ Len(d.calls) = d.max_retries + 1

\* ------------------------------------------------------------------ claims: registry
RowOf(rows, id) == CHOOSE p \in rows : p.id = id
Ids(rows) == {p.id : p \in rows}

Primaries(pool_type) == {p \in providers : p.pool_type = pool_type /\ p.is_primary}

\* C11 as stated: after any sequence of registry writes each pool type has at
\* most one row with is_primary = true.
C11_AtMostOnePrimary ==
    \A t \in PoolTypes : Cardinality(Primaries(t)) <= 1

\* C10: a set-primary of row X (service function or admin route) leaves X
\* primary and every other row of X's pool type, enabled or not, non-primary;
\* it changes no other field of any row and no row of the other pool type, adds
\* and removes no row; for an id no row has, the table is unchanged.
C10_SetPrimaryClearsSiblingsOnly ==
    [][lastOp'.op \in {"set_primary", "admin_set_primary"} =>
        IF lastOp'.id \notin Ids(providers)
        THEN providers' = providers
        ELSE LET x == RowOf(providers, lastOp'.id) IN
             /\ Ids(providers') = Ids(providers)
             /\ Cardinality(providers') = Cardinality(providers)
             /\ \A q \in providers' :
                   LET p == RowOf(providers, q.id) IN
                   /\ [q EXCEPT !.is_primary = p.is_primary] = p
                   /\ q.pool_type = x.pool_type => (q.is_primary <=> q.id = x.id)
                   /\ q.pool_type # x.pool_type => q = p]_vars

\* the admin route made a row primary: a disabled row of the same pool type
\* lost the flag, and a row of the other pool type still holds its own
C10_Witness ==
    /\ lastOp.op = "admin_set_primary"
    /\ lastOp.id \in Ids(providers)
    /\ \E c \in lastOp.cleared : ~RowOf(providers, c).enabled
    /\ \E p \in providers :
          p.pool_type # RowOf(providers, lastOp.id).pool_type /\ p.is_primary

\* ------------------------------------------------------------------ claims: pool order
Before(pool, P(_), Q(_)) ==
    \A i, j \in 1..Len(pool) : P(pool[i]) /\ Q(pool[j]) => i < j

\* C7: in every built pool each channel of a primary row precedes each channel
\* of a non-primary row, whatever their priorities, and inside the primary group
\* and inside the non-primary group priorities never decrease along the list.
C7_PrimaryThenPriority ==
    \A t \in PoolTypes :
        LET pool == pools[t] IN
        \A i, j \in 1..Len(pool) :
            /\ (pool[i].is_primary /\ ~pool[j].is_primary) => i < j
            /\ (i < j /\ pool[i].is_primary = pool[j].is_primary)
                    => pool[i].priority <= pool[j].priority

\* a built pool where a primary row of priority 3 leads non-primary rows of
\* priorities 1 and 2
C7_Witness ==
    LET pool == pools["metadata"] IN
        /\ lastOp.op = "reload_config"
        /\ Len(pool) >= 3
        /\ pool[1].is_primary /\ pool[1].priority = 3
        /\ \E i, j \in 2..Len(pool) :
              /\ i < j
              /\ ~pool[i].is_primary /\ pool[i].priority = 1
              /\ ~pool[j].is_primary /\ pool[j].priority = 2

\* C8: among the channels of one row, a lower model index always comes first,
\* and channels of equal model index keep the declared order of their
\* credentials.
C8_ModelIndexThenCredential ==
    \A t \in PoolTypes :
        LET pool == pools[t] IN
        \A i, j \in 1..Len(pool) :
            (pool[i].rid = pool[j].rid) =>
                /\ pool[i].model_index < pool[j].model_index => i < j
                /\ (pool[i].model_index = pool[j].model_index
                        /\ pool[i].key_index < pool[j].key_index) => i < j

\* a built pool holding the four channels of a two-credential, two-model row
C8_Witness ==
    /\ lastOp.op = "reload_config"
    /\ \E i \in 1..Len(pools["metadata"]) :
          LET c == pools["metadata"][i] IN c.model_index = 1 /\ c.key_index = 2
    /\ \E p, q \in providers :
          /\ p.id # q.id /\ p.enabled /\ q.enabled
          /\ p.pool_type = "metadata" /\ q.pool_type = "metadata"
          /\ p.priority = q.priority /\ p.is_primary = q.is_primary
          /\ p.api_key = TwoKeys /\ q.api_key = TwoKeys

\* C9 as stated: for any two rows of a pool, all channels of one precede all
\* channels of the other (no pool interleaves the channels of two rows).
C9_RowsNotInterleaved ==
    \A t \in PoolTypes :
        LET pool == pools[t]
            rids == {pool[i].rid : i \in 1..Len(pool)}
        IN \A r1, r2 \in rids :
              r1 # r2 =>
                \/ Before(pool, LAMBDA c : c.rid = r1, LAMBDA c : c.rid = r2)
                \/ Before(pool, LAMBDA c : c.rid = r2, LAMBDA c : c.rid = r1)

Tier(c) == <<c.is_primary, c.priority>>

\* C9 amended: two rows whose primary flag or priority differ are never
\* interleaved, all channels of one precede all channels of the other; among
\* the channels of rows that share primary flag and priority a lower model
\* index always comes first, so each row's models keep their declared order
\* while the rows themselves interleave.
C9_TiersApartModelIndexWithin ==
    \A t \in PoolTypes :
        LET pool == pools[t] IN
        \A i, j \in 1..Len(pool) :
            /\ (Tier(pool[i]) = Tier(pool[j])
                    /\ pool[i].model_index < pool[j].model_index) => i < j
            /\ Tier(pool[i]) # Tier(pool[j]) =>
                    \/ Before(pool, LAMBDA c : c.rid = pool[i].rid,
                                    LAMBDA c : c.rid = pool[j].rid)
                    \/ Before(pool, LAMBDA c : c.rid = pool[j].rid,
                                    LAMBDA c : c.rid = pool[i].rid)

\* a built pool where a channel of one row stands between two channels of
\* another row, and a row of another priority follows them all
C9_Witness ==
    LET pool == pools["metadata"] IN
        /\ lastOp.op = "reload_config"
        /\ \E i, j, k \in 1..Len(pool) :
              /\ i < j /\ j < k
              /\ pool[i].rid = pool[k].rid /\ pool[j].rid # pool[i].rid
        /\ Tier(pool[Len(pool)]) # Tier(pool[1])

\* ------------------------------------------------------------------ claims: rebuilds beside dispatches
\* the orders a query sorted by priority can return a set of rows in
Orders(rows) ==
    LET n == Cardinality(rows)
    IN {s \in [1..n -> rows] :
            /\ \A i, j \in 1..n : i # j => s[i] # s[j]
            /\ \A i, j \in 1..n : i < j => s[i].priority <= s[j].priority}

\* the lists _build_pool can return for a pool type of the rebuilds' table:
\* the sorted expansion of some of the type's rows, each row with all its
\* channels
WholeLists(pool_type) ==
    UNION {{build_pool(entries) : entries \in Orders(rows)} :
              rows \in SUBSET {p \in UNION ReloadTables : p.pool_type = pool_type}}

\* the list a call read, for a name the dict has or not
WholeList(l, pool_name) ==
    IF pool_name \in PoolTypes THEN l \in WholeLists(pool_name) ELSE l = <<>>

\* C12: beside rebuilds that run a step at a time, each list of the dict and
\* the list a dispatch read are at all times lists a whole _build_pool call
\* returned, complete and sorted; the dict changes only by the assignment of
\* two such lists; the list a dispatch read stays the one it read for the whole
\* run, whatever is assigned to the dict meanwhile; and the calls of the
\* dispatch go through that list from its first channel on, in order.
C12_DispatchKeepsItsWholeList ==
    /\ [](/\ \A t \in PoolTypes : pools[t] \in WholeLists(t)
          /\ d.pc # "idle" => WholeList(d.target_pool, d.pool_name)
          /\ \A k \in 1..Len(d.calls) :
                /\ d.calls[k] = NthCall(k, d.max_retries)
                /\ d.calls[k].node <= Len(d.target_pool))
    /\ [][pools' # pools =>
            \E w \in Runners : threads[w].pc = "assign" /\ pools' = new_pools(threads[w])]_vars
    /\ [][d.pc # "idle" => d'.target_pool = d.target_pool]_vars

\* a dispatch read the two-channel list; while it was on the first channel a
\* rebuild replaced the list by the empty one; the dispatch went on to the
\* second channel of the list it had read
C12_Witness ==
    /\ Len(d.target_pool) = 2
    /\ pools[d.pool_name] = <<>>
    /\ d.calls = <<NthCall(1, 1), NthCall(2, 1)>>
    /\ d.pc = "returned" /\ d.result.node = 2

\* C13 as stated: once the rebuild that the deletion of a row submitted has
\* ended, the list a starting dispatch reads holds no channel of that row.
C13_NoDeletedChannelAfterItsRebuild ==
    [][(d.pc = "idle" /\ d'.pc # "idle") =>
          \A i \in 1..Len(d'.target_pool) : d'.target_pool[i].rid \notin hist.done]_vars

\* ------------------------------------------------------------------ claims: one call after another
\* what the llm_max_retries setting, as it is stored now, makes the bound
BoundOfSetting ==
    IF config = None THEN 3
    ELSE IF int_parse(config).ok THEN int_parse(config).value ELSE 3

\* the adapter calls of dd are the first ones of the channel-by-channel order
\* with n attempts per channel; none at all when n is not positive
CallsInOrder(dd, n) ==
    /\ n <= 0 => dd.calls = <<>>
    /\ \A k \in 1..Len(dd.calls) : dd.calls[k] = NthCall(k, n)

\* C14: a call that finds channels reads the llm_max_retries setting once, when
\* it starts, and its bound is what the setting holds at that moment (3 when
\* the setting is absent or is not an integer), whatever the bound of the call
\* before was; the bound stays the same to the end of the call, also when the
\* setting is changed meanwhile, and it is the number of attempts the call
\* makes on each channel it gives up.
C14_BoundReadAtEachStart ==
    /\ [][(d.pc = "idle" /\ d'.pc = "loop") =>
            /\ d'.max_retries = BoundOfSetting
            /\ d'.config_reads = 1]_vars
    /\ [][(d.pc # "idle" /\ d'.pc # "idle") =>
            /\ d'.max_retries = d.max_retries
            /\ d'.config_reads = d.config_reads]_vars
    /\ [](/\ CallsInOrder(d, d.max_retries)
          /\ (d.pc = "raised" /\ d.target_pool # <<>>) =>
                Len(d.calls) = Len(d.target_pool) * Max0(d.max_retries))

\* the call before gave up after 3 attempts on each of the two channels (the
\* setting was absent or not an integer), the setting is "1" now and this call
\* gave up after 1 attempt on each
C14_Witness ==
    /\ prev.pc = "raised" /\ prev.max_retries = 3 /\ Len(prev.calls) = 6
    /\ config # None /\ config = <<"1">>
    /\ d.pc = "raised" /\ d.max_retries = 1
    /\ d.calls = <<NthCall(1, 1), NthCall(2, 1)>>
    /\ d.target_pool = prev.target_pool

\* C15: no call changes the pools; a call that follows another one on the same
\* pool gets the list the one before had, starts at its first channel with
\* attempt 0, no calls made and no last error, and makes its calls in the
\* channel-by-channel order from the first channel on, also when the call
\* before failed every attempt on that channel.
C15_NextCallStartsAfresh ==
    /\ [][pools' = pools]_vars
    /\ [][(d.pc = "idle" /\ d'.pc # "idle" /\ d'.pool_name = prev.pool_name) =>
            /\ d'.target_pool = prev.target_pool
            /\ d'.calls = <<>> /\ d'.log = <<>> /\ d'.last_error = NoError
            /\ d'.pc = "loop" => d'.node = 1 /\ d'.attempt = 0]_vars
    /\ [](CallsInOrder(d, d.max_retries))

\* the call before failed both attempts on the first channel and on the second;
\* this call made its first attempt on the first channel and returned from it
C15_Witness ==
    /\ prev.pc = "raised" /\ prev.pool_name = "metadata"
    /\ prev.calls = <<NthCall(1, 2), NthCall(2, 2), NthCall(3, 2), NthCall(4, 2)>>
    /\ d.pool_name = "metadata" /\ d.target_pool = prev.target_pool
    /\ d.pc = "returned" /\ d.result.node = 1 /\ d.result.attempt = 0
    /\ d.calls = <<NthCall(1, d.max_retries)>>

\* ------------------------------------------------------------------ claims: two calls at once
RECURSIVE Failures(_)
\* the failure events of a log, in order
Failures(log) ==
    IF log = <<>> THEN <<>>
    ELSE IF Head(log).ev = "failure"
         THEN <<Head(log)>> \o Failures(Tail(log))
         ELSE Failures(Tail(log))

\* dd is where a call run alone is after the attempts it has made: with F
\* attempts failed so far and a bound of N, the calls made and the failures
\* logged are the first ones of the channel-by-channel order; the call has
\* returned exactly when an attempt went through, from the (F+1)-th call; it has
\* raised exactly when all the Len(pool) * N calls failed, with the error of the
\* last one; else it stands behind its F-th call
Alone(dd) ==
    LET N == dd.max_retries
        fails == Failures(dd.log)
        F == Len(fails)
        all == Len(dd.target_pool) * Max0(N)
    IN \/ dd.pc = "idle"
       \/ dd.target_pool = <<>> /\ dd.pc = "raised" /\ dd.calls = <<>>
       \/ /\ dd.target_pool # <<>>
          /\ CallsInOrder(dd, N)
          /\ \A j \in 1..F : /\ fails[j].node = NthCall(j, N).node
                              /\ fails[j].attempt = NthCall(j, N).attempt
          /\ F <= all
          /\ IF F = 0 THEN dd.last_error = NoError
             ELSE /\ dd.last_error.node = fails[F].node
                  /\ dd.last_error.attempt = fails[F].attempt
          /\ CASE dd.pc = "returned" ->
                    /\ dd.n_ok = 1 /\ Len(dd.calls) = F + 1
                    /\ dd.result.node = NthCall(F + 1, N).node
                    /\ dd.result.attempt = NthCall(F + 1, N).attempt
               [] dd.pc = "raised" ->
                    /\ dd.n_ok = 0 /\ F = all /\ Len(dd.calls) = F
                    /\ dd.raised = final_error(dd)
               [] dd.pc = "awaiting" ->
                    /\ dd.n_ok = 0 /\ Len(dd.calls) = F + 1
               [] OTHER ->
                    /\ dd.n_ok = 0 /\ Len(dd.calls) = F
                    /\ N > 0 => (dd.node - 1) * N + dd.attempt = F

\* C16: with two calls of chat in flight on the same manager, in every
\* interleaving of their steps each call is where it would be when run alone
\* with the same results of its attempts (same sequence of (channel, attempt)
\* calls, same outcome), and no step of one call changes the locals of the
\* other.
C16_EachCallAsIfAlone ==
    /\ [](Alone(d) /\ Alone(d2))
    /\ [][d' = d \/ d2' = d2]_vars

\* both calls run on the two-channel pool at once; the first has failed its two
\* attempts on the first channel, the second returned from its second attempt
\* on the first channel while the first call was in flight
C16_Witness ==
    /\ d.pc = "loop" /\ d.pool_name = "metadata" /\ d.max_retries = 2
    /\ d.calls = <<NthCall(1, 2), NthCall(2, 2)>> /\ d.attempt = 2
    /\ d2.pc = "returned" /\ d2.pool_name = "metadata"
    /\ d2.calls = <<NthCall(1, 2), NthCall(2, 2)>>
    /\ d2.result.node = 1 /\ d2.result.attempt = 1

\* ------------------------------------------------------------------ claims: streaming
\* what was passed to on_chunk during one attempt, in the order it was passed
ChunksOf(dd, node, attempt) ==
    SelectSeq(dd.chunks, LAMBDA c : c.node = node /\ c.attempt = attempt)

Streams == d.mode = "chat_stream"

\* C17: in chat_stream, when an attempt that has already passed chunks to
\* on_chunk ends in an error, the failure is logged and kept as last_error for
\* that channel and attempt, no call is made by that step, and the loop
\* stands on the same channel with the attempt number one higher; an attempt's
\* stream starts with an empty accumulated text and the text only ever holds
\* the pieces of the attempt under way; the adapter calls are made channel by
\* channel, max_retries on a channel before the next, all of them before the
\* call raises.
C17_MidStreamErrorIsOneFailedAttempt ==
    /\ [][(/\ d.pc = "streaming"
            /\ Len(ChunksOf(d, d.node, d.attempt)) > 0
            /\ d'.pc # "streaming" /\ d'.pc # "returned") =>
              /\ d'.pc = "loop" /\ d'.node = d.node /\ d'.attempt = d.attempt + 1
              /\ d'.last_error.node = d.node /\ d'.last_error.attempt = d.attempt
              /\ d'.calls = d.calls
              /\ Failures(d'.log) = Append(Failures(d.log), Event("failure", d))]_vars
    /\ [][(Streams /\ d.pc = "loop" /\ d'.pc = "streaming") =>
              /\ d'.full_content = <<>>
              /\ d'.calls = Append(d.calls, [node |-> d.node, attempt |-> d.attempt])]_vars
    /\ [](Streams =>
            /\ CallsInOrder(d, d.max_retries)
            /\ d.pc = "streaming" =>
                  \A k \in 1..Len(d.full_content) :
                      d.full_content[k] = <<d.node, d.attempt, k>>
            /\ (d.pc = "raised" /\ d.target_pool # <<>>) =>
                  Len(d.calls) = Len(d.target_pool) * Max0(d.max_retries))

\* the first attempt on the first channel passed a chunk to on_chunk and then
\* failed; the second attempt on that channel has its stream open and no text
C17_Witness ==
    /\ Streams /\ d.on_chunk /\ d.max_retries = 2
    /\ Len(ChunksOf(d, 1, 0)) > 0
    /\ d.pc = "streaming" /\ d.node = 1 /\ d.attempt = 1
    /\ d.calls = <<NthCall(1, 2), NthCall(2, 2)>>
    /\ d.full_content = <<>>

\* the channel a call returned from
ResultNode == d.target_pool[d.result.node]

\* C18: when chat_stream returns from an openai channel, the value returned
\* is the pieces the stream of the attempt that went through gave, each once
\* and in the order they came, and nothing of an attempt before; with an
\* on_chunk, what was passed to it during that attempt is exactly these
\* pieces in the same order, and from a channel that is not openai the one
\* text passed to it is the value returned; without an on_chunk nothing is
\* passed.
C18_ReturnIsTheChunksOfTheAttempt ==
    (Streams /\ d.pc = "returned") =>
        LET cs == ChunksOf(d, d.result.node, d.result.attempt)
        IN /\ ~d.on_chunk => Len(d.chunks) = 0
           /\ IF ResultNode.api_type = "openai"
              THEN /\ \A k \in 1..Len(d.result.content) :
                         d.result.content[k] = <<d.result.node, d.result.attempt, k>>
                   /\ d.on_chunk =>
                         /\ Len(cs) = Len(d.result.content)
                         /\ \A k \in 1..Len(cs) : cs[k].text = d.result.content[k]
              ELSE d.on_chunk => Len(cs) = 1 /\ cs[1].text = d.result.content

\* the second attempt on an openai channel returned two pieces, after the
\* first attempt had passed a chunk to on_chunk and failed
C18_Witness ==
    /\ Streams /\ d.pc = "returned" /\ d.on_chunk
    /\ ResultNode.api_type = "openai"
    /\ d.result.node = 1 /\ d.result.attempt = 1
    /\ Len(d.result.content) = 2
    /\ Len(ChunksOf(d, 1, 0)) > 0

\* C19: when chat_stream returns from a gemini or anthropic channel, the
\* adapter call of that attempt went to the wrapper's create_chat_completion,
\* the value returned is the content of the response, and on_chunk, when
\* given, was called once during that attempt, with that content (not at all
\* when not given).
C19_BlockingChannelGivesOneChunk ==
    (Streams /\ d.pc = "returned" /\ ResultNode.api_type \in {"gemini", "anthropic"}) =>
        /\ d.method = "create_chat_completion"
        /\ LastCall = [node |-> d.result.node, attempt |-> d.result.attempt]
        /\ d.result.content \in Contents
        /\ LET cs == ChunksOf(d, d.result.node, d.result.attempt)
           IN IF d.on_chunk THEN Len(cs) = 1 /\ cs[1].text = d.result.content
              ELSE Len(cs) = 0

\* chat_stream returned from the gemini channel behind two openai channels
\* whose attempts had passed chunks to on_chunk and failed
C19_Witness ==
    /\ Streams /\ d.pc = "returned" /\ d.on_chunk
    /\ d.result.node = 3 /\ ResultNode.api_type = "gemini"
    /\ Len(ChunksOf(d, 1, 0)) > 0
    /\ Len(ChunksOf(d, 3, d.result.attempt)) = 1
    /\ d.result.content = "good"

Reads(w) ==
    /\ threads[w].pc \in {"metadata", "analysis"}
    /\ threads'[w].pc # threads[w].pc

\* C21: a request of one of the five admin routes that finds its row (or
\* makes one) has committed its change and submitted one rebuild when its
\* response goes out, the commit making the table what the request asks for;
\* the response can go out whatever the state of that rebuild; a rebuild
\* enters the executor only by such a submission, one at a time; and the
\* rebuild a request submitted reads the table only once the request has
\* committed.  A request that finds no row changes nothing and submits nothing.
C21_WriteCommitsSubmitsAndReturns ==
    /\ [][(req.pc = "respond" /\ req'.pc = "none") =>
            IF req.status = 200
            THEN req.committed /\ req.submitted = 1
            ELSE ~req.committed /\ req.submitted = 0]_vars
    /\ [][(req.pc = "commit" /\ req'.pc # "commit") =>
            \E r \in AdminRequests(providers) :
                r.op = req.op /\ r.id = req.id /\ providers' = r.after]_vars
    /\ [][providers' # providers => req.pc = "commit"]_vars
    /\ [][executor' > executor =>
            req.pc = "submit" /\ req.status = 200 /\ executor' = executor + 1]_vars
    /\ [](req.pc = "respond" => ENABLED route_respond)
    /\ [][\A w \in Workers :
            (Reads(w) /\ req.pc # "none" /\ threads[w].task = req.write) =>
                req.committed]_vars

\* the response of the first request, a toggle that disabled the row, has
\* gone out; a worker thread has read the table for the rebuild it
\* submitted and has not yet assigned the pools, which still hold the channel
C21_Witness ==
    /\ req.pc = "none" /\ req.write = 1
    /\ \E p \in providers : p.id = 1 /\ ~p.enabled
    /\ \E w \in Workers :
          /\ threads[w].task = 1 /\ threads[w].pc = "analysis"
          /\ threads[w].metadata = <<>>
    /\ 1 \notin hist.done
    /\ Len(pools["metadata"]) = 1

\* ------------------------------------------------------------------ claims: the channels of a build
\* the entries of a comma-separated text: the stretches between commas that
\* hold a character other than a blank, each from its first such character
\* to its last, as <<from, to>>
EntrySpans(text) ==
    {sp \in (1..Len(text)) \X (1..Len(text)) :
        /\ sp[1] <= sp[2]
        /\ \A i \in sp[1]..sp[2] : text[i] # ","
        /\ text[sp[1]] \notin Whitespace /\ text[sp[2]] \notin Whitespace
        /\ \A i \in 1..(sp[1] - 1) :
              (\A j \in i..(sp[1] - 1) : text[j] # ",") => text[i] \in Whitespace
        /\ \A i \in (sp[2] + 1)..Len(text) :
              (\A j \in (sp[2] + 1)..i : text[j] # ",") => text[i] \in Whitespace}

\* the k-th entry of the text
Entry(text, k) ==
    LET sp == CHOOSE e \in EntrySpans(text) :
                  Cardinality({f \in EntrySpans(text) : f[1] < e[1]}) = k - 1
    IN SubSeq(text, sp[1], sp[2])

NEntries(text) == Cardinality(EntrySpans(text))

\* one <<row id, credential number, model number>> for each pair of an
\* entry of the credential text and an entry of the model text of an enabled
\* row of the pool type
Pairs(pool_type) ==
    UNION {{<<p.id, i, j>> : i \in 1..NEntries(p.api_key), j \in 1..NEntries(p.models)} :
              p \in {q \in providers : q.pool_type = pool_type /\ q.enabled}}

\* C22: after a rebuild each pool holds one channel for each pair of a
\* non-blank credential entry and a non-blank model entry of each enabled row
\* of its pool type, with that credential and that model stripped of blanks,
\* and no other channel; rows that are disabled, of the other pool type, or
\* without a non-blank credential or model give none.
C22_OneChannelPerPair ==
    lastOp.op = "reload_config" =>
        \A t \in PoolTypes :
            /\ Len(pools[t]) = Cardinality(Pairs(t))
            /\ \A k \in 1..Len(pools[t]) :
                  LET c == pools[t][k]
                  IN /\ <<c.rid, c.key_index, c.model_index + 1>> \in Pairs(t)
                     /\ \A p \in providers : p.id = c.rid =>
                           /\ c.client = Entry(p.api_key, c.key_index)
                           /\ c.model = Entry(p.models, c.model_index + 1)
                           /\ c.api_type = p.api_type
            /\ \A tr \in Pairs(t) :
                  \E k \in 1..Len(pools[t]) :
                      /\ pools[t][k].rid = tr[1]
                      /\ pools[t][k].key_index = tr[2]
                      /\ pools[t][k].model_index + 1 = tr[3]

\* a rebuild of a table of two enabled metadata rows, one with blank entries
\* around its two credentials and two models, one with no credential at all:
\* four channels from the first, none from the second
C22_Witness ==
    /\ lastOp.op = "reload_config"
    /\ \E p, q \in providers :
          /\ p.api_key = SpacedKeys /\ p.models = GappedModels
          /\ q.id # p.id /\ q.pool_type = "metadata" /\ q.enabled
          /\ q.api_key = BlankKeys
          /\ Len(pools["metadata"]) = 4
          /\ \A k \in 1..4 : pools["metadata"][k].rid = p.id
          /\ pools["metadata"][4].client = <<"b">>
          /\ pools["metadata"][4].model = <<"n">>

\* ------------------------------------------------------------------ claims: the length of a dispatch
\* the steps one attempt can take: the call, the chunks of its stream, its end
AttemptSteps == MaxChunks + 2

\* an upper bound of the steps a dispatch can still take: for every channel
\* to come the steps of its attempts and the step to the next channel, and
\* the raise at the end
Rank(dd) ==
    LET L == Len(dd.target_pool)
        N == Max0(dd.max_retries)
        left == IF dd.attempt < N THEN N - dd.attempt ELSE 0
    IN IF dd.pc \in {"idle", "returned", "raised"} THEN 0
       ELSE IF dd.node > L THEN 1
       ELSE 2 + (L - dd.node) * (N * AttemptSteps + 1) + left * AttemptSteps
              - (IF dd.pc = "streaming" THEN 1 + Len(dd.full_content) ELSE 0)

\* C23: a dispatch that is under way can take a step, and every step brings
\* it nearer its end (every adapter call returning or raising, a stream
\* after finitely many chunks); it makes at most |pool| x maxRetries adapter
\* calls, one at a time, none while the stream of the one before is open;
\* and when it returns from the j-th attempt on the k-th channel it has
\* made (k-1) x maxRetries + j calls.
C23_DispatchEndsWithinItsBudget ==
    /\ [](d.pc \notin {"idle", "returned", "raised"} => ENABLED Next /\ Rank(d) > 0)
    /\ [][d.pc # "idle" => Rank(d') < Rank(d)]_vars
    /\ [](Len(d.calls) <= Len(d.target_pool) * Max0(d.max_retries))
    /\ [][d'.calls # d.calls =>
            /\ d.pc = "loop"
            /\ d'.calls = Append(d.calls, [node |-> d.node, attempt |-> d.attempt])]_vars
    /\ [](d.pc = "returned" =>
            Len(d.calls) = (d.result.node - 1) * d.max_retries + d.result.attempt + 1)

\* chat_stream returned from the second attempt on the second channel with
\* maxRetries = 2: four calls
C23_Witness ==
    /\ Streams /\ d.pc = "returned" /\ d.max_retries = 2
    /\ d.result.node = 2 /\ d.result.attempt = 1
    /\ Len(d.calls) = 4
    /\ Len(d.target_pool) = 3

\* ------------------------------------------------------------------ claims: the errors of an attempt
\* every kind of error an attempt of chat can end in
ErrorKinds == AdapterErrors \cup {"validation", "validator_raised"}

\* the call after a failed attempt of the given kind: the attempt was logged
\* and made, the failure logged and kept as the last error, and the loop is
\* on the same channel with the attempt number one higher
AfterFailure(dd, kind) ==
    [dd EXCEPT !.pc = "loop",
               !.calls = Append(@, [node |-> dd.node, attempt |-> dd.attempt]),
               !.log = @ \o <<Event(IF dd.attempt = 0 THEN "request" ELSE "retry", dd),
                              Event("failure", dd)>>,
               !.last_error = [kind |-> kind, node |-> dd.node, attempt |-> dd.attempt],
               !.attempt = @ + 1]

\* C24: an attempt of chat that ends in an error of any kind (connection,
\* timeout, HTTP status, malformed response, validator false, validator
\* raising) leaves the call in the same state but for the kind kept in the
\* last error: still looping, on the same channel, the attempt number one
\* higher, nothing raised and nothing returned; the call raises only from
\* behind the last channel, every attempt of every channel made.
C24_EveryErrorIsOneFailedAttempt ==
    /\ [][Len(Failures(d'.log)) > Len(Failures(d.log)) =>
            \E kind \in ErrorKinds :
                d' = [AfterFailure(d, kind) EXCEPT !.method = d'.method]]_vars
    /\ [](d.last_error.kind \in ErrorKinds \cup {None})
    /\ [](d.pc = "loop" => d.raised = NoError /\ d.result = NoResult)
    /\ [][d'.pc = "raised" /\ d.pc # "raised" =>
            \/ d.pc = "idle"
            \/ /\ d.node > Len(d.target_pool)
               /\ Len(d.calls) = Len(d.target_pool) * Max0(d.max_retries)]_vars

\* two attempts on the first channel have failed, the second on a malformed
\* response; the call is still looping, its budget of two used up there
C24_Witness ==
    /\ d.pc = "loop" /\ d.max_retries = 2
    /\ d.last_error = [kind |-> "malformed", node |-> 1, attempt |-> 1]
    /\ Len(Failures(d.log)) = 2
    /\ d.attempt = 2 /\ d.node = 1

\* ------------------------------------------------------------------ claims: the Gemini adapter
\* the messages that are not system messages, in their order
NonSystem(messages) == SelectSeq(messages, LAMBDA msg : msg.role # "system")

\* C25 as stated: in the request built from any message sequence, contents
\* holds one entry for each message that is not a system message, in the
\* order of the messages, of role model for an assistant message and of role
\* user for any other; and the content of every system message (an empty one
\* has nothing to carry) is what the systemInstruction field carries.
C25_SystemContentIsCarried ==
    gem.pc = "posted" =>
        /\ Len(gem.request.contents) = Len(NonSystem(gem.messages))
        /\ \A k \in 1..Len(gem.request.contents) :
              /\ gem.request.contents[k].text = NonSystem(gem.messages)[k].content
              /\ gem.request.contents[k].role =
                    IF NonSystem(gem.messages)[k].role = "assistant" THEN "model" ELSE "user"
        /\ \A i \in 1..Len(gem.messages) :
              (gem.messages[i].role = "system" /\ gem.messages[i].content # "") =>
                  /\ gem.request.has_system
                  /\ gem.request.systemInstruction = gem.messages[i].content

\* ------------------------------------------------------------------ claims: what on_chunk receives
\* the attempt of chunk a is the attempt of chunk b or an earlier one
NotAfter(a, b) == a.node < b.node \/ (a.node = b.node /\ a.attempt <= b.attempt)

\* the texts of a sequence of chunks
Texts(cs) == [k \in 1..Len(cs) |-> cs[k].text]

\* C26: in chat_stream with an on_chunk, a piece the stream gives is passed to
\* on_chunk in the step that receives it, and what was passed is never taken
\* back: the sequence passed so far only grows at its end, by a text of the
\* attempt under way. So the sequence passed over one call is the chunks of
\* the attempts in the order of the attempts, each stream from its first
\* piece on, the partial chunks of a failed attempt included; when the call
\* returns, the chunks of the attempt that went through are the end of the
\* sequence and are the value returned, and the whole sequence is longer
\* than the value returned unless no earlier attempt passed anything.
C26_ChunksForwardedAtOnceNeverRetracted ==
    /\ [][(Streams /\ d.pc # "idle") =>
            \/ d'.chunks = d.chunks
            \/ /\ Len(d'.chunks) = Len(d.chunks) + 1
               /\ SubSeq(d'.chunks, 1, Len(d.chunks)) = d.chunks
               /\ d'.chunks[Len(d'.chunks)].node = d.node
               /\ d'.chunks[Len(d'.chunks)].attempt = d.attempt]_vars
    /\ [][(Streams /\ d.on_chunk /\ d.pc = "streaming"
            /\ Len(d'.full_content) > Len(d.full_content)) =>
              d'.chunks = Append(d.chunks,
                                 [node |-> d.node, attempt |-> d.attempt,
                                  text |-> d'.full_content[Len(d'.full_content)]])]_vars
    /\ [](Streams =>
            /\ \A i, j \in 1..Len(d.chunks) : i < j => NotAfter(d.chunks[i], d.chunks[j])
            /\ \A i \in 1..Len(d.chunks) :
                  LET c == d.chunks[i]
                      cs == ChunksOf(d, c.node, c.attempt)
                  IN  d.target_pool[c.node].api_type = "openai" =>
                          \A k \in 1..Len(cs) : cs[k].text = <<c.node, c.attempt, k>>)
    /\ []((Streams /\ d.on_chunk /\ d.pc = "returned") =>
            LET cs == ChunksOf(d, d.result.node, d.result.attempt)
                n == Len(d.chunks)
                value == IF ResultNode.api_type = "openai" THEN d.result.content
                         ELSE <<d.result.content>>
            IN  /\ SubSeq(d.chunks, n - Len(cs) + 1, n) = cs
                /\ Texts(cs) = value
                /\ Len(cs) = n => Texts(d.chunks) = value
                /\ Len(cs) < n => Len(d.chunks) > Len(value))

\* the first attempt on the openai channel passed one chunk and failed, the
\* second passed two and returned: three chunks were passed, the last two
\* are the value returned
C26_Witness ==
    /\ Streams /\ d.on_chunk /\ d.pc = "returned"
    /\ d.result.node = 1 /\ d.result.attempt = 1
    /\ Len(d.chunks) = 3
    /\ d.chunks[1].attempt = 0 /\ d.chunks[1].text = <<1, 0, 1>>
    /\ d.chunks[2].text = <<1, 1, 1>>
    /\ Len(d.result.content) = 2

\* ------------------------------------------------------------------ claims: an on_chunk that raises
\* the step passed a text to on_chunk and the attempt did not go on: on_chunk
\* raised
CallbackRaised ==
    /\ Streams /\ d.pc \in {"loop", "streaming"}
    /\ Len(d'.chunks) > Len(d.chunks)
    /\ d'.pc \notin {"streaming", "returned"}

\* the channel the call stands on does not stream
OnBlockingChannel ==
    /\ d.node \in 1..Len(d.target_pool)
    /\ d.target_pool[d.node].api_type \in {"gemini", "anthropic"}

\* C27: when on_chunk raises inside chat_stream, the exception stays inside:
\* the failure is logged and kept as the last error of that channel and
\* attempt, the loop stands on the same channel with the attempt number one
\* higher, nothing is raised; the call raises only behind the last channel.
\* On a gemini or anthropic channel the step in which on_chunk raised made
\* the upstream call and got its response, and the next attempt on that
\* channel makes the upstream call once more and passes the whole content of
\* the new response to on_chunk.
C27_CallbackErrorIsAFailedAttempt ==
    /\ [][CallbackRaised =>
            /\ d'.pc = "loop" /\ d'.node = d.node /\ d'.attempt = d.attempt + 1
            /\ d'.raised = NoError /\ d'.result = NoResult
            /\ d'.last_error = [kind |-> "on_chunk_raised", node |-> d.node,
                                attempt |-> d.attempt]
            /\ Failures(d'.log) = Append(Failures(d.log), Event("failure", d))
            /\ OnBlockingChannel =>
                  d'.calls = Append(d.calls, [node |-> d.node, attempt |-> d.attempt])]_vars
    /\ [][(Streams /\ d'.pc = "raised" /\ d.pc # "raised") =>
            d.pc = "idle" \/ d.node > Len(d.target_pool)]_vars
    /\ [][(/\ Streams /\ InLoop(d) /\ OnBlockingChannel
            /\ d.last_error = [kind |-> "on_chunk_raised", node |-> d.node,
                               attempt |-> d.attempt - 1]) =>
              /\ d'.calls = Append(d.calls, [node |-> d.node, attempt |-> d.attempt])
              /\ d'.method = "create_chat_completion"
              /\ d'.pc = "returned" =>
                    /\ d'.chunks = Append(d.chunks, [node |-> d.node, attempt |-> d.attempt,
                                                     text |-> d'.result.content])
                    /\ Len(ChunksOf(d', d.node, d.attempt - 1)) = 1]_vars

\* on the gemini channel on_chunk raised in the first attempt, and the second
\* attempt called upstream again, passed the content and returned: the
\* channel was called twice and on_chunk received a whole content twice
C27_Witness ==
    /\ Streams /\ d.on_chunk /\ d.pc = "returned" /\ d.max_retries = 2
    /\ d.result.node = 2 /\ d.result.attempt = 1
    /\ ResultNode.api_type = "gemini"
    /\ d.last_error = [kind |-> "on_chunk_raised", node |-> 2, attempt |-> 0]
    /\ Len(ChunksOf(d, 2, 0)) = 1 /\ Len(ChunksOf(d, 2, 1)) = 1
    /\ Len(SelectSeq(d.calls, LAMBDA c : c.node = 2)) = 2

\* ------------------------------------------------------------------ claims: the setting changed in flight
\* the adapter calls dd made on its n-th channel
CallsOn(dd, n) == SelectSeq(dd.calls, LAMBDA c : c.node = n)

\* C28: a write of the llm_max_retries setting changes nothing of the call
\* in flight nor of the call that ended before; whatever the setting holds
\* by now, the call in flight has made, on every channel it gave up, as many
\* attempts as the bound it read at its start, and no more than that on the
\* channel it stands on; a call that starts after the write reads the value
\* written.
C28_SettingChangeMissesCallInFlight ==
    /\ [][config' # config => (d' = d /\ prev' = prev)]_vars
    /\ [](Started =>
            \A n \in 1..Len(d.target_pool) :
                /\ n < d.node => Len(CallsOn(d, n)) = Max0(d.max_retries)
                /\ (n = d.node /\ d.pc # "returned") =>
                      Len(CallsOn(d, n)) = d.attempt /\ d.attempt <= Max0(d.max_retries)
                /\ n > d.node => Len(CallsOn(d, n)) = 0)
    /\ [][(d.pc = "idle" /\ d'.pc = "loop") => d'.max_retries = BoundOfSetting]_vars

\* the first call started with the setting "2"; the setting was written to
\* "1" while it ran, and it gave up after two attempts on each channel
C28_Witness ==
    /\ prev = Idle
    /\ d.pc = "raised" /\ d.max_retries = 2
    /\ Len(CallsOn(d, 1)) = 2 /\ Len(CallsOn(d, 2)) = 2
    /\ config # None /\ config = <<"1">>

\* ------------------------------------------------------------------ claims: the worker of the translation queue
\* the loops of start_worker that are alive
Alive == {l \in Loops : tq.loops[l].pc # "none"}

\* the tasks in status processing
Processing == {i \in DOMAIN tq.tasks : tq.tasks[i].status = "processing"}

\* C29 as stated: after any start_worker and stop_worker calls at most one
\* worker loop is alive, at most one task is processing, and while a loop
\* is inside _process_next_task with a task, _current_task_id names that
\* task.
C29_AtMostOneWorkerLoop ==
    /\ Cardinality(Alive) <= 1
    /\ Cardinality(Processing) <= 1
    /\ \A l \in Loops :
          tq.loops[l].pc \in {"events", "backoff", "closing"} =>
              tq.current_task_id = tq.loops[l].task

====
